---- MODULE Spec2Model ----
(***************************************************************************)
(* Booking assistant: the chat endpoint's orchestration loop, the session  *)
(* store adapter and the five tools, as a state machine.                   *)
(*                                                                         *)
(* A request is a coroutine.  Every step of the model is one completed     *)
(* await of the session store or of the LLM, followed by the synchronous   *)
(* code that runs until the next await is issued.  The relational store's  *)
(* client is synchronous, so its queries run inside the step that issues   *)
(* them.                                                                   *)
(***************************************************************************)
EXTENDS Integers, Sequences, FiniteSets, TLC

\* ---------------------------------------------------------------- bounds
MaxTurns == 2
MaxCalls == 2

\* ------------------------------------------------------------- constants
STATE_EXPIRY_SECONDS == 7200

Sessions == {"a", "b"}
Reqs == {1, 2}

\* Python's None and a present value; every Optional is one of the two.
None == <<>>
Some(v) == <<v>>

IsPrefix(s, t) == Len(s) <= Len(t) /\ SubSeq(t, 1, Len(s)) = s

\* ------------------------------------------------------------------ JSON
JNull == [t |-> "null"]
JStr(s) == [t |-> "str", v |-> s]
JNum(n) == [t |-> "num", v |-> n]
JObj(f) == [t |-> "obj", v |-> f]
JArr(s) == [t |-> "arr", v |-> s]

\* Python truthiness of a decoded JSON value.
Truthy(j) ==
    CASE j.t = "null" -> FALSE
      [] j.t = "str" -> j.v # ""
      [] j.t = "num" -> j.v # 0
      [] j.t = "obj" -> DOMAIN j.v # {}
      [] j.t = "arr" -> Len(j.v) > 0

Ok(v) == [raised |-> FALSE, value |-> v]
Raised == [raised |-> TRUE]

\* --------------------------------------------------------------- schemas
InfoFields == {"destination", "check_in", "check_out", "guests"}

\* ExtractedInfo(**kwargs) on a Python mapping: unknown keys are ignored,
\* missing ones default to None.
ExtractedInfo(kwargs) ==
    [f \in InfoFields |-> IF f \in DOMAIN kwargs THEN kwargs[f] ELSE None]

Message(role, content) == [role |-> role, content |-> content]

\* A dump that writes a field only when its value is truthy: an empty
\* string and 0 go out as null.
DumpInfoTruthy(info) ==
    JObj([f \in InfoFields |->
            IF info[f] = None THEN JNull
            ELSE IF f = "guests"
            THEN (IF info[f][1] # 0 THEN JNum(info[f][1]) ELSE JNull)
            ELSE (IF info[f][1] # "" THEN JStr(info[f][1]) ELSE JNull)])

\* info.model_dump(mode='json') followed by json.dumps.
DumpInfo(info) ==
    JObj([f \in InfoFields |->
            IF info[f] = None THEN JNull
            ELSE IF f = "guests" THEN JNum(info[f][1]) ELSE JStr(info[f][1])])

DumpMessage(msg) == JObj([role |-> JStr(msg.role), content |-> JStr(msg.content)])

\* ExtractedInfo(**info_data) on decoded JSON: a non-mapping or a value of
\* the wrong type raises.
FieldOk(f, j) ==
    \/ j.t = "null"
    \/ IF f = "guests" THEN j.t = "num" ELSE j.t = "str"

ParseInfo(info_data) ==
    IF info_data.t # "obj" THEN Raised
    ELSE IF \E f \in InfoFields \cap DOMAIN info_data.v : ~FieldOk(f, info_data.v[f])
    THEN Raised
    ELSE Ok([f \in InfoFields |->
               IF f \in DOMAIN info_data.v /\ info_data.v[f].t # "null"
               THEN Some(info_data.v[f].v) ELSE None])

\* The history loop of load_conversation_state: items that are not mappings
\* with role and content are skipped, Message(**msg_data) validates the rest.
IsMsgData(j) == j.t = "obj" /\ {"role", "content"} \subseteq DOMAIN j.v

ParseHistory(history_data) ==
    IF history_data.t \in {"null", "num"} THEN Raised
    ELSE IF history_data.t # "arr" THEN Ok(<<>>)
    ELSE LET kept == SelectSeq(history_data.v, IsMsgData) IN
         IF \E i \in DOMAIN kept :
                kept[i].v.role.t # "str" \/ kept[i].v.content.t # "str"
         THEN Raised
         ELSE Ok([i \in DOMAIN kept |->
                    Message(kept[i].v.role.v, kept[i].v.content.v)])

\* --------------------------------------------------------- session store
Key(session_id) == "session:" \o session_id
Keys == {Key(s) : s \in Sessions}

DefaultState == [info |-> None, history |-> <<>>]

\* The value save_conversation_state hands to setex.
StateJson(info, history) ==
    [enc |-> "json",
     doc |-> JObj([info |-> IF info # None THEN DumpInfo(info[1]) ELSE JNull,
                   history |-> JArr([i \in DOMAIN history |-> DumpMessage(history[i])])])]

\* The body of load_conversation_state's try block once get has returned.
LoadBody(state_json_bytes) ==
    IF state_json_bytes = None \/ state_json_bytes[1].enc = "empty"
    THEN Ok(DefaultState)
    ELSE IF state_json_bytes[1].enc # "json" THEN Raised
    ELSE LET state_data == state_json_bytes[1].doc IN
         IF state_data.t # "obj" THEN Raised
         ELSE LET info_data == IF "info" \in DOMAIN state_data.v
                               THEN state_data.v.info ELSE JNull
                  history_data == IF "history" \in DOMAIN state_data.v
                                  THEN state_data.v.history ELSE JArr(<<>>)
                  loaded_info == IF Truthy(info_data) THEN ParseInfo(info_data)
                                 ELSE Ok(None)
                  loaded_history == ParseHistory(history_data)
              IN IF loaded_info.raised \/ loaded_history.raised THEN Raised
                 ELSE Ok([info |-> IF Truthy(info_data)
                                   THEN Some(loaded_info.value) ELSE None,
                          history |-> loaded_history.value])

\* A load without its try: a store error or a stored value that does not
\* decode raises to the caller.
load_conversation_state_unguarded(session_id, get) ==
    IF session_id = "" THEN Ok(DefaultState)
    ELSE IF get.err THEN Raised
    ELSE LoadBody(get.bytes)

\* get: [err |-> TRUE] when the store errors, else the bytes under the key.
load_conversation_state(session_id, get) ==
    IF session_id = "" THEN Ok(DefaultState)
    ELSE IF get.err THEN Ok(DefaultState)
    ELSE LET r == LoadBody(get.bytes) IN
         IF r.raised THEN Ok(DefaultState) ELSE r

\* ------------------------------------------------------ relational store
\* The listings collection is read-only to this core.
Listings ==
    << [id |-> "L1", title |-> "Loft", city |-> "Paris", country |-> "France",
        price_per_night |-> Some(120), max_guests |-> Some(2), bedrooms |-> Some(1),
        description_len |-> 250, image_url |-> None, amenities |-> {"wifi"}],
       [id |-> "L2", title |-> "Studio", city |-> "Paris", country |-> "France",
        price_per_night |-> Some(80), max_guests |-> Some(4), bedrooms |-> Some(2),
        description_len |-> 40, image_url |-> Some("https://img/l2"), amenities |-> {}],
       [id |-> "L3", title |-> "Villa", city |-> "Rome", country |-> "Italy",
        price_per_night |-> None, max_guests |-> Some(6), bedrooms |-> Some(3),
        description_len |-> 0, image_url |-> None, amenities |-> {"wifi", "pool"}],
       [id |-> "L4", title |-> "Cabin", city |-> "Oslo", country |-> "Norway",
        price_per_night |-> Some(60), max_guests |-> None, bedrooms |-> Some(0),
        description_len |-> 120, image_url |-> None, amenities |-> {}] >>

\* Calendar dates the model draws from, as day numbers; any other string is
\* not an ISO date.
DayOf == [d \in {"2025-07-10", "2025-07-12", "2025-07-14", "2025-07-15"} |->
            CASE d = "2025-07-10" -> 10 [] d = "2025-07-12" -> 12
              [] d = "2025-07-14" -> 14 [] d = "2025-07-15" -> 15]

IsDate(s) == s \in DOMAIN DayOf

\* The k-th relational-store call of a tool invocation raises when dbfail = k;
\* dbfail = 0 is a store that answers every call.
DbFails == 0 .. 3

\* ------------------------------------------------------------ tool calls
ToolParams ==
    [update_booking_parameters |->
        {"session_id", "destination", "check_in", "check_out", "guests"},
     search_listings |->
        {"session_id", "query", "destination", "guests", "country", "min_price",
         "max_price", "min_bedrooms", "amenities", "check_in", "check_out", "limit"},
     check_availability |-> {"session_id", "name", "check_in", "check_out"},
     get_or_create_user |-> {"session_id", "email", "full_name", "phone_number"},
     create_booking |->
        {"session_id", "user_id", "listing_id", "check_in", "check_out",
         "num_guests", "total_price"}]

ToolRequired ==
    [update_booking_parameters |-> {"session_id"},
     search_listings |-> {"session_id"},
     check_availability |-> {"session_id", "name"},
     get_or_create_user |-> {"session_id", "email", "full_name"},
     create_booking |->
        {"session_id", "user_id", "listing_id", "check_in", "check_out",
         "num_guests", "total_price"}]

available_tools == DOMAIN ToolParams

\* A dispatch that fills in the session id only when the model gave none.
KeepSuppliedSession(function_args, session_id) ==
    [k \in DOMAIN function_args \cup {"session_id"} |->
        IF k \in DOMAIN function_args THEN function_args[k] ELSE session_id]

\* function_args["session_id"] = session_id
InjectSession(function_args, session_id) ==
    [k \in DOMAIN function_args \cup {"session_id"} |->
        IF k = "session_id" THEN session_id ELSE function_args[k]]

\* tool_function(**function_args): Python raises TypeError on a missing
\* required or an unexpected keyword; omitted parameters take their default.
Binds(function_name, function_args) ==
    /\ ToolRequired[function_name] \subseteq DOMAIN function_args
    /\ DOMAIN function_args \subseteq ToolParams[function_name]

BindParams(function_name, function_args) ==
    [p \in ToolParams[function_name] |->
        IF p \in DOMAIN function_args THEN Some(function_args[p])
        ELSE IF p = "limit" THEN Some(5) ELSE None]

\* ------------------------------------------- update_booking_parameters
\* A merge that starts from a fresh ExtractedInfo whatever was loaded.
UpdateMergeFresh(loaded_info, params) ==
    ExtractedInfo([f \in InfoFields |-> params[f]])

\* The merge between the tool's load and its save.
UpdateMerge(loaded_info, params) ==
    LET current_info == IF loaded_info = None THEN ExtractedInfo(<<>>)
                        ELSE loaded_info[1]
        updated_values ==
            [f \in InfoFields |->
                IF params[f] # None THEN params[f] ELSE current_info[f]]
    IN ExtractedInfo(updated_values)

\* ------------------------------------------------------- search_listings
\* Case folding over the vocabulary of the model; ilike "%x%" is equality up
\* to case here because no word of the vocabulary contains another.
Lower(w) ==
    CASE w = "Paris" -> "paris" [] w = "Rome" -> "rome"
      [] w = "France" -> "france" [] w = "Italy" -> "italy"
      [] w = "Loft" -> "loft" [] w = "Studio" -> "studio" [] w = "Villa" -> "villa"
      [] w = "Nowhereville" -> "nowhereville"
      [] OTHER -> w

Ilike(column, term) == Lower(column) = Lower(term)

\* Python truthiness of an optional string, number and amenity list.
GivenStr(o) == o # None /\ o[1] # ""
GivenNum(o) == o # None /\ o[1] # 0
GivenSet(o) == o # None /\ o[1] # {}

AtLeast(column, n) == column # None /\ column[1] >= n
AtMost(column, n) == column # None /\ column[1] <= n

PrimaryMatch(l, p) ==
    /\ GivenStr(p.query) =>
         \/ Ilike(l.title, p.query[1]) \/ Ilike(l.city, p.query[1])
         \/ Ilike(l.country, p.query[1])
    /\ GivenStr(p.destination) =>
         Ilike(l.city, p.destination[1]) \/ Ilike(l.country, p.destination[1])
    /\ GivenStr(p.country) => Ilike(l.country, p.country[1])
    /\ (GivenNum(p.guests) /\ p.guests[1] > 0) => AtLeast(l.max_guests, p.guests[1])
    /\ (GivenNum(p.min_price) /\ p.min_price[1] > 0) =>
         AtLeast(l.price_per_night, p.min_price[1])
    /\ (GivenNum(p.max_price) /\ p.max_price[1] > 0) =>
         AtMost(l.price_per_night, p.max_price[1])
    /\ (GivenNum(p.min_bedrooms) /\ p.min_bedrooms[1] > 0) =>
         AtLeast(l.bedrooms, p.min_bedrooms[1])
    /\ GivenSet(p.amenities) => p.amenities[1] \subseteq l.amenities

FallbackMatch(l, p) ==
    IF GivenStr(p.destination) THEN Ilike(l.city, p.destination[1])
    ELSE IF GivenStr(p.country) THEN Ilike(l.country, p.country[1])
    ELSE TRUE

\* order("price_per_night"): ascending, rows without a price last.
PriceBefore(a, b) ==
    /\ a.price_per_night # None
    /\ b.price_per_night = None \/ a.price_per_night[1] < b.price_per_night[1]

RECURSIVE OrderByPrice(_)
OrderByPrice(rows) ==
    IF rows = <<>> THEN <<>>
    ELSE LET i == CHOOSE i \in DOMAIN rows :
                    /\ \A j \in DOMAIN rows : ~PriceBefore(rows[j], rows[i])
                    /\ \A j \in 1 .. (i - 1) : PriceBefore(rows[i], rows[j])
             rest == [k \in 1 .. (Len(rows) - 1) |->
                        IF k < i THEN rows[k] ELSE rows[k + 1]]
         IN <<rows[i]>> \o OrderByPrice(rest)

Limit(rows, n) == SubSeq(rows, 1, IF n < Len(rows) THEN (IF n < 0 THEN 0 ELSE n) ELSE Len(rows))

PLACEHOLDER_IMAGE == "https://placehold.co/600x400?text=No+Image"

\* The first pass of the loop over results, up to its call of
\* save_conversation_state.
Stamp(item) ==
    [item EXCEPT
        !.image_url = IF item.image_url = None \/ item.image_url[1] = ""
                      THEN Some(PLACEHOLDER_IMAGE) ELSE @,
        !.description_len = IF @ > 200 THEN 197 + 3 ELSE @]

\* save_conversation_state takes (session_id, info, history): a call with a
\* fourth keyword argument raises TypeError before anything is written.
SaveAccepts(keywords) == keywords \subseteq {}

\* The part of search_listings after its load: the list it returns.
search_listings(params, dbfail) ==
    IF dbfail = 1 THEN <<>>
    ELSE LET primary == Limit(OrderByPrice(
                            SelectSeq(Listings, LAMBDA l : PrimaryMatch(l, params))),
                            params.limit[1])
         IN IF primary = <<>> /\ dbfail = 2 THEN <<>>
            ELSE LET results ==
                        IF primary # <<>> THEN primary
                        ELSE Limit(SelectSeq(Listings,
                                       LAMBDA l : FallbackMatch(l, params)),
                                   params.limit[1])
                 IN IF results = <<>> THEN <<>>
                    ELSE IF SaveAccepts({"listing"})
                    THEN [i \in DOMAIN results |-> Stamp(results[i])]
                    ELSE [i \in DOMAIN results |->
                            IF i = 1 THEN Stamp(results[i]) ELSE results[i]]

\* Lines 103-137 with a fallback query after every answered primary query,
\* whether or not it returned rows.
listing_queries_always_fallback(params, dbfail) ==
    LET primary == Limit(OrderByPrice(
                       SelectSeq(Listings, LAMBDA l : PrimaryMatch(l, params))),
                       params.limit[1])
        fallback == Limit(SelectSeq(Listings, LAMBDA l : FallbackMatch(l, params)),
                          params.limit[1])
    IN IF dbfail = 1
       THEN <<[query |-> "primary", raised |-> TRUE, rows |-> <<>>]>>
       ELSE <<[query |-> "primary", raised |-> FALSE, rows |-> primary],
              [query |-> "fallback", raised |-> dbfail = 2,
               rows |-> IF dbfail = 2 THEN <<>> ELSE fallback]>>

\* Lines 103-137: the queries a call executes on the listings, in order,
\* each with the rows it returned or the fact that it raised.
listing_queries(params, dbfail) ==
    LET primary == Limit(OrderByPrice(
                       SelectSeq(Listings, LAMBDA l : PrimaryMatch(l, params))),
                       params.limit[1])
        fallback == Limit(SelectSeq(Listings, LAMBDA l : FallbackMatch(l, params)),
                          params.limit[1])
    IN IF dbfail = 1
       THEN <<[query |-> "primary", raised |-> TRUE, rows |-> <<>>]>>
       ELSE IF primary # <<>>
       THEN <<[query |-> "primary", raised |-> FALSE, rows |-> primary]>>
       ELSE <<[query |-> "primary", raised |-> FALSE, rows |-> <<>>],
              [query |-> "fallback", raised |-> dbfail = 2,
               rows |-> IF dbfail = 2 THEN <<>> ELSE fallback]>>

\* ---------------------------------------------------- check_availability
Dict1(k, v) == [x \in {k} |-> v]

\* check_availability without the comparison of line 47: two calendar dates
\* go on to the bookings query in whatever order they come.
check_availability_unordered(params, bookings_rows, dbfail) ==
    IF dbfail = 1 THEN [out |-> "raise"]
    ELSE LET found == SelectSeq(Listings, LAMBDA l : l.title = params.name[1]) IN
    IF found = <<>>
    THEN [out |-> "return", payload |-> Dict1("error", Some("Listing not found."))]
    ELSE LET listing_id == found[1].id
             check_in == params.check_in
             check_out == params.check_out
             dates == [check_in |-> check_in, check_out |-> check_out]
    IN
    IF ~GivenStr(check_in) \/ ~GivenStr(check_out)
    THEN [out |-> "return",
          payload |-> Dict1("error",
              Some("Missing check-in or check-out date for availability check."))]
    ELSE IF ~IsDate(check_in[1]) \/ ~IsDate(check_out[1])
    THEN [out |-> "return",
          payload |-> dates @@ Dict1("error",
              Some("Invalid date format provided. Please use YYYY-MM-DD."))]
    ELSE LET overlapping_booking_count ==
                 IF dbfail = 2 THEN 0
                 ELSE Cardinality({b \in bookings_rows :
                        /\ b.listing_id = listing_id
                        /\ DayOf[b.check_out] < DayOf[check_out[1]]
                        /\ DayOf[b.check_in] > DayOf[check_in[1]]})
             is_available == dbfail # 2 /\ overlapping_booking_count = 0
             result ==
                 [listing_id |-> Some(listing_id), check_in |-> check_in,
                  check_out |-> check_out, is_available |-> Some(is_available),
                  conflicting_bookings_found |-> Some(overlapping_booking_count)]
                 @@ (IF dbfail = 2
                     THEN Dict1("error", Some("Database error checking availability."))
                     ELSE <<>>)
         IN IF ~is_available THEN [out |-> "return", payload |-> result]
            ELSE IF dbfail = 3 THEN [out |-> "raise"]
            ELSE [out |-> "await", payload |-> result,
                  price_per_night |-> found[1].price_per_night,
                  nights |-> DayOf[check_out[1]] - DayOf[check_in[1]]]

\* The synchronous part of check_availability, up to its first await.
\*   raise:  a relational-store call outside the tool's try raised
\*   return: the tool returned payload
\*   await:  the listing is available and the tool awaits its load
check_availability(params, bookings_rows, dbfail) ==
    IF dbfail = 1 THEN [out |-> "raise"]
    ELSE LET found == SelectSeq(Listings, LAMBDA l : l.title = params.name[1]) IN
    IF found = <<>>
    THEN [out |-> "return", payload |-> Dict1("error", Some("Listing not found."))]
    ELSE LET listing_id == found[1].id
             check_in == params.check_in
             check_out == params.check_out
             dates == [check_in |-> check_in, check_out |-> check_out]
    IN
    IF ~GivenStr(check_in) \/ ~GivenStr(check_out)
    THEN [out |-> "return",
          payload |-> Dict1("error",
              Some("Missing check-in or check-out date for availability check."))]
    ELSE IF ~IsDate(check_in[1]) \/ ~IsDate(check_out[1])
    THEN [out |-> "return",
          payload |-> dates @@ Dict1("error",
              Some("Invalid date format provided. Please use YYYY-MM-DD."))]
    ELSE IF DayOf[check_in[1]] >= DayOf[check_out[1]]
    THEN [out |-> "return",
          payload |-> dates @@ Dict1("error",
              Some("Check-out date must be after check-in date."))]
    ELSE LET overlapping_booking_count ==
                 IF dbfail = 2 THEN 0
                 ELSE Cardinality({b \in bookings_rows :
                        /\ b.listing_id = listing_id
                        /\ DayOf[b.check_out] < DayOf[check_out[1]]
                        /\ DayOf[b.check_in] > DayOf[check_in[1]]})
             is_available == dbfail # 2 /\ overlapping_booking_count = 0
             result ==
                 [listing_id |-> Some(listing_id), check_in |-> check_in,
                  check_out |-> check_out, is_available |-> Some(is_available),
                  conflicting_bookings_found |-> Some(overlapping_booking_count)]
                 @@ (IF dbfail = 2
                     THEN Dict1("error", Some("Database error checking availability."))
                     ELSE <<>>)
         IN IF ~is_available THEN [out |-> "return", payload |-> result]
            ELSE IF dbfail = 3 THEN [out |-> "raise"]
            ELSE [out |-> "await", payload |-> result,
                  price_per_night |-> found[1].price_per_night,
                  nights |-> DayOf[check_out[1]] - DayOf[check_in[1]]]

\* current_info["selected_listing_id"] = listing_id, on what the load
\* returned under "info": None and ExtractedInfo support no item assignment.
SupportsItemAssignment(loaded_info) == FALSE

\* ---------------------------------------------------- get_or_create_user
\* Addresses the model draws from; the valid ones hold an "@" and a ".".
ValidEmails == {"ann@x.io", "bob@x.io"}

EmailValid(email) == email # "" /\ email \in ValidEmails

UserResult(status, user_id, params, error_message) ==
    [status |-> Some(status), user_id |-> user_id, email |-> params.email,
     full_name |-> params.full_name]
    @@ (IF error_message = None THEN <<>> ELSE Dict1("error_message", error_message))

INTERNAL_USER_ERROR == "An internal error occurred while processing user details."

\* get_or_create_user without lines 55-64: the rows its lookup returned are
\* not looked at and the insert follows.
get_or_create_user_unlooked(params, users_rows, dbfail) ==
    IF ~EmailValid(params.email[1])
    THEN [out |-> "return", users |-> users_rows,
          payload |-> [status |-> Some("error"),
                       error_message |-> Some("Invalid email address provided.")]]
    ELSE IF dbfail # 0
    THEN [out |-> "return", users |-> users_rows,
          payload |-> UserResult("error", None, params, Some(INTERNAL_USER_ERROR))]
    ELSE LET new_user == [id |-> Cardinality(users_rows) + 1,
                          email |-> params.email[1],
                          full_name |-> params.full_name[1]]
         IN [out |-> "await", users |-> users_rows \cup {new_user},
             status |-> "created", user_id |-> new_user.id, params |-> params]

\* The synchronous part of get_or_create_user, up to its first await.
get_or_create_user(params, users_rows, dbfail) ==
    IF ~EmailValid(params.email[1])
    THEN [out |-> "return", users |-> users_rows,
          payload |-> [status |-> Some("error"),
                       error_message |-> Some("Invalid email address provided.")]]
    ELSE IF dbfail = 1
    THEN [out |-> "return", users |-> users_rows,
          payload |-> UserResult("error", None, params, Some(INTERNAL_USER_ERROR))]
    ELSE LET existing_user == {u \in users_rows : u.email = params.email[1]} IN
    IF existing_user # {}
    THEN LET user_data == CHOOSE u \in existing_user :
                              \A w \in existing_user : u.id <= w.id
         IN [out |-> "await", users |-> users_rows, status |-> "found",
             user_id |-> user_data.id,
             params |-> [params EXCEPT !.full_name = Some(user_data.full_name)]]
    ELSE IF dbfail = 2
    THEN [out |-> "return", users |-> users_rows,
          payload |-> UserResult("error", None, params, Some(INTERNAL_USER_ERROR))]
    ELSE LET new_user == [id |-> Cardinality(users_rows) + 1,
                          email |-> params.email[1],
                          full_name |-> params.full_name[1]]
         IN [out |-> "await", users |-> users_rows \cup {new_user},
             status |-> "created", user_id |-> new_user.id, params |-> params]

\* The rest of get_or_create_user once its load has returned: the save it
\* calls with user_id= raises inside the tool's try.
get_or_create_user_resume(status, user_id, params) ==
    IF SaveAccepts({"user_id"})
    THEN UserResult(status, Some(user_id), params, None)
    ELSE UserResult("error", Some(user_id), params, Some(INTERNAL_USER_ERROR))

\* --------------------------------------------------------- create_booking
BookingError(message, booking_id) ==
    [status |-> Some("error"), message |-> Some(message), booking_id |-> booking_id]

\* create_booking without lines 172-177: the rows its query returned are not
\* looked at and the insert follows.
create_booking_unchecked(params, bookings_rows, dbfail) ==
    LET user_id == params.user_id[1]
        listing_id == params.listing_id[1]
        check_in == params.check_in[1]
        check_out == params.check_out[1]
        same == [bookings |-> bookings_rows]
    IN
    IF user_id = ""
    THEN same @@ [payload |-> BookingError(
             "User ID is required. Please collect user information first.", None)]
    ELSE IF listing_id = ""
    THEN same @@ [payload |-> BookingError("Listing ID is required.", None)]
    ELSE IF ~IsDate(check_in) \/ ~IsDate(check_out)
    THEN same @@ [payload |-> BookingError("Invalid date format. Use YYYY-MM-DD.", None)]
    ELSE IF DayOf[check_in] >= DayOf[check_out]
    THEN same @@ [payload |-> BookingError(
             "Check-out date must be after check-in date.", None)]
    ELSE LET booking_id == Cardinality(bookings_rows) + 1
             availability_check ==
                 {b \in bookings_rows :
                    /\ b.listing_id = listing_id
                    /\ DayOf[b.check_out] >= DayOf[check_in]
                    /\ DayOf[b.check_in] <= DayOf[check_out]}
             booking_data ==
                 [id |-> booking_id, user_id |-> user_id, listing_id |-> listing_id,
                  check_in |-> check_in, check_out |-> check_out]
             listing_response == SelectSeq(Listings, LAMBDA l : l.id = listing_id)
    IN
    IF dbfail = 1
    THEN same @@ [payload |-> BookingError("store error", Some(booking_id))]
    ELSE IF dbfail = 2
    THEN same @@ [payload |-> BookingError("store error", Some(booking_id))]
    ELSE IF dbfail = 3
    THEN [bookings |-> bookings_rows \cup {booking_data},
          payload |-> BookingError("store error", Some(booking_id))]
    ELSE [bookings |-> bookings_rows \cup {booking_data},
          payload |->
             [status |-> Some("success"), booking_id |-> Some(booking_id),
              user_id |-> Some(user_id), listing_id |-> Some(listing_id),
              listing_title |-> IF listing_response # <<>>
                                THEN Some(listing_response[1].title)
                                ELSE Some("Unknown listing"),
              check_in |-> Some(check_in), check_out |-> Some(check_out),
              num_guests |-> params.num_guests, total_price |-> params.total_price,
              message |-> Some("Booking confirmed successfully!")]]

\* create_booking has no await: the whole call is one synchronous run.
create_booking(params, bookings_rows, dbfail) ==
    LET user_id == params.user_id[1]
        listing_id == params.listing_id[1]
        check_in == params.check_in[1]
        check_out == params.check_out[1]
        same == [bookings |-> bookings_rows]
    IN
    IF user_id = ""
    THEN same @@ [payload |-> BookingError(
             "User ID is required. Please collect user information first.", None)]
    ELSE IF listing_id = ""
    THEN same @@ [payload |-> BookingError("Listing ID is required.", None)]
    ELSE IF ~IsDate(check_in) \/ ~IsDate(check_out)
    THEN same @@ [payload |-> BookingError("Invalid date format. Use YYYY-MM-DD.", None)]
    ELSE IF DayOf[check_in] >= DayOf[check_out]
    THEN same @@ [payload |-> BookingError(
             "Check-out date must be after check-in date.", None)]
    ELSE LET booking_id == Cardinality(bookings_rows) + 1
             availability_check ==
                 {b \in bookings_rows :
                    /\ b.listing_id = listing_id
                    /\ DayOf[b.check_out] >= DayOf[check_in]
                    /\ DayOf[b.check_in] <= DayOf[check_out]}
             booking_data ==
                 [id |-> booking_id, user_id |-> user_id, listing_id |-> listing_id,
                  check_in |-> check_in, check_out |-> check_out]
             listing_response == SelectSeq(Listings, LAMBDA l : l.id = listing_id)
    IN
    IF dbfail = 1
    THEN same @@ [payload |-> BookingError("store error", Some(booking_id))]
    ELSE IF availability_check # {}
    THEN same @@ [payload |->
             [status |-> Some("unavailable"),
              message |-> Some("This listing is no longer available for the selected dates."),
              booking_id |-> None]]
    ELSE IF dbfail = 2
    THEN same @@ [payload |-> BookingError("store error", Some(booking_id))]
    ELSE IF dbfail = 3
    THEN [bookings |-> bookings_rows \cup {booking_data},
          payload |-> BookingError("store error", Some(booking_id))]
    ELSE [bookings |-> bookings_rows \cup {booking_data},
          payload |->
             [status |-> Some("success"), booking_id |-> Some(booking_id),
              user_id |-> Some(user_id), listing_id |-> Some(listing_id),
              listing_title |-> IF listing_response # <<>>
                                THEN Some(listing_response[1].title)
                                ELSE Some("Unknown listing"),
              check_in |-> Some(check_in), check_out |-> Some(check_out),
              num_guests |-> params.num_guests, total_price |-> params.total_price,
              message |-> Some("Booking confirmed successfully!")]]

\* create_booking up to its insert, lines 120-177: the validation and the
\* overlap query. "insert" when the call goes on to insert, which is when
\* create_booking with a failing insert gives that failure's payload.
create_booking_query(params, bookings_rows, dbfail) ==
    LET ran == create_booking(params, bookings_rows, IF dbfail = 1 THEN 1 ELSE 2) IN
    IF ran.payload.status = Some("error") /\ ran.payload.booking_id # None
          /\ dbfail # 1
    THEN [out |-> "insert"]
    ELSE [out |-> "return", payload |-> ran.payload]

\* Lines 180-233 with a re-check in the insert itself: a row that overlaps
\* what the collection holds by then is refused.
create_booking_insert_rechecked(booking_id, params, bookings_rows, dbfail) ==
    LET hit == {b \in bookings_rows :
                  /\ b.listing_id = params.listing_id[1]
                  /\ DayOf[b.check_out] >= DayOf[params.check_in[1]]
                  /\ DayOf[b.check_in] <= DayOf[params.check_out[1]]}
        inserted == bookings_rows \cup
                   {[id |-> booking_id, user_id |-> params.user_id[1],
                     listing_id |-> params.listing_id[1],
                     check_in |-> params.check_in[1],
                     check_out |-> params.check_out[1]]}
        listing_response ==
            SelectSeq(Listings, LAMBDA l : l.id = params.listing_id[1])
    IN IF hit # {} \/ dbfail = 2
       THEN [bookings |-> bookings_rows,
             payload |-> BookingError("store error", Some(booking_id))]
       ELSE IF dbfail = 3
       THEN [bookings |-> inserted,
             payload |-> BookingError("store error", Some(booking_id))]
       ELSE [bookings |-> inserted,
             payload |->
                [status |-> Some("success"), booking_id |-> Some(booking_id),
                 user_id |-> params.user_id, listing_id |-> params.listing_id,
                 listing_title |-> IF listing_response # <<>>
                                   THEN Some(listing_response[1].title)
                                   ELSE Some("Unknown listing"),
                 check_in |-> params.check_in, check_out |-> params.check_out,
                 num_guests |-> params.num_guests,
                 total_price |-> params.total_price,
                 message |-> Some("Booking confirmed successfully!")]]

\* create_booking from its insert on, lines 180-233, on the rows the
\* collection holds by then: what the query returned is not looked at again.
create_booking_insert(booking_id, params, bookings_rows, dbfail) ==
    LET booking_data ==
            [id |-> booking_id, user_id |-> params.user_id[1],
             listing_id |-> params.listing_id[1],
             check_in |-> params.check_in[1], check_out |-> params.check_out[1]]
        listing_response ==
            SelectSeq(Listings, LAMBDA l : l.id = params.listing_id[1])
    IN
    IF dbfail = 2
    THEN [bookings |-> bookings_rows,
          payload |-> BookingError("store error", Some(booking_id))]
    ELSE IF dbfail = 3
    THEN [bookings |-> bookings_rows \cup {booking_data},
          payload |-> BookingError("store error", Some(booking_id))]
    ELSE [bookings |-> bookings_rows \cup {booking_data},
          payload |->
             [status |-> Some("success"), booking_id |-> Some(booking_id),
              user_id |-> params.user_id, listing_id |-> params.listing_id,
              listing_title |-> IF listing_response # <<>>
                                THEN Some(listing_response[1].title)
                                ELSE Some("Unknown listing"),
              check_in |-> params.check_in, check_out |-> params.check_out,
              num_guests |-> params.num_guests, total_price |-> params.total_price,
              message |-> Some("Booking confirmed successfully!")]]

\* ------------------------------------------------------------- the state
VARIABLES
    store,      \* session store: key -> None or Some(bytes)
    ttl,        \* session store: key -> seconds left before the key expires
    users,      \* relational store: rows of the users collection
    bookings,   \* relational store: rows of the bookings collection
    turns,      \* chat requests received so far
    clients,    \* the callers: each posts the turns of its own session, one at a time
    calls,      \* direct tool calls: the info stored before them, what they were
                \* given and gave, the bookings create_booking confirmed
    req         \* per request: the locals of chat_endpoint and of the tool it awaits

vars == <<store, ttl, users, bookings, turns, clients, calls, req>>

\* ---------------------------------------------------------------- replies
DEFAULT_REPLY == "Sorry, something went wrong while processing your request."
CONFUSED_REPLY ==
    "Sorry, I got a bit confused with an internal task. Could you please rephrase your request?"
CONNECT_REPLY ==
    "I apologize, but I'm having trouble connecting with my systems right now. Please try again in a moment."

\* function_name.replace('_', ' ')
Spaced(function_name) ==
    CASE function_name = "update_booking_parameters" -> "update booking parameters"
      [] function_name = "search_listings" -> "search listings"
      [] function_name = "check_availability" -> "check availability"
      [] function_name = "get_or_create_user" -> "get or create user"
      [] function_name = "create_booking" -> "create booking"
      [] OTHER -> function_name

ToolApology(function_name) ==
    "Sorry, I encountered an issue while trying to " \o Spaced(function_name)
        \o ". Could you try again?"

\* ------------------------------------------------------------ the inputs
\* The message of the n-th request; the code never looks inside a message.
UserMessages == <<"first message", "second message", "third message",
                  "fourth message", "fifth message">>

LLMTexts == {"Here is what I found."}

\* The keys a call supplies: those of full that are not None.
Supplied(full) ==
    [k \in {k \in DOMAIN full : full[k] # None} |-> full[k][1]]

UpdateCalls ==
    {Supplied(f) : f \in [destination : {None, Some("Paris"), Some("Rome")},
                          guests : {None, Some(2)}]}

SearchCalls ==
    {Supplied(f) : f \in [destination : {None, Some("Paris"), Some("Nowhereville")},
                          limit : {None, Some(1)}]}

AvailabilityCalls ==
    {Supplied(f) : f \in [name : {None, Some("Loft"), Some("Nope")},
                          check_in : {None, Some("2025-07-10"), Some("2025-07-15"),
                                      Some("soon")},
                          check_out : {Some("2025-07-15")}]}

UserCalls ==
    {Supplied(f) : f \in [email : {Some("ann@x.io"), Some("ann")},
                          full_name : {None, Some("Ann")}]}

BookingCalls ==
    {Supplied(f) : f \in [user_id : {Some(""), Some("1")},
                          listing_id : {Some("L1")},
                          check_in : {Some("2025-07-12"), Some("soon")},
                          check_out : {Some("2025-07-12"), Some("2025-07-14")},
                          num_guests : {Some(2)},
                          total_price : {None, Some(240)}]}

\* The arguments of a direct call of update_booking_parameters: any subset
\* of the four fields, an empty destination among the values.
MergeCalls ==
    {Supplied(f) : f \in [destination : {None, Some("Paris"), Some("")},
                          check_in : {None, Some("2025-07-10")},
                          check_out : {None, Some("2025-07-15")},
                          guests : {None, Some(2)}]}

\* A call whose arguments name another session, and one with a keyword the
\* tool does not take.
ForgedCalls ==
    {[name |-> "update_booking_parameters",
      args |-> [session_id |-> s, destination |-> "Rome"]] : s \in Sessions}
    \cup {[name |-> "search_listings", args |-> [city |-> "Paris"]]}

FunctionCalls ==
    {[name |-> "update_booking_parameters", args |-> a] : a \in UpdateCalls}
    \cup {[name |-> "search_listings", args |-> a] : a \in SearchCalls}
    \cup {[name |-> "check_availability", args |-> a] : a \in AvailabilityCalls}
    \cup {[name |-> "get_or_create_user", args |-> a] : a \in UserCalls}
    \cup {[name |-> "create_booking", args |-> a] : a \in BookingCalls}
    \cup ForgedCalls
    \cup {[name |-> "cancel_booking", args |-> <<>>]}

\* What generate_content_async gives: it raises, or the response has no
\* candidates, or its first candidate has no parts, or the first part is a
\* text or a function call.
FirstResponses ==
    {[kind |-> "raise"], [kind |-> "no_candidates"], [kind |-> "no_parts"]}
    \cup {[kind |-> "text", text |-> t] : t \in LLMTexts}
    \cup {[kind |-> "function_call", function_call |-> c] : c \in FunctionCalls}

SecondResponses ==
    {[kind |-> "raise"], [kind |-> "no_candidates"], [kind |-> "no_parts"]}
    \cup {[kind |-> "text", text |-> t] : t \in LLMTexts}

\* ------------------------------------------------------------------ Init
IdleRequest ==
    [pc |-> "idle", session_id |-> "", user_message_content |-> "",
     current_info |-> None, chat_history |-> <<>>,
     function_name |-> "", params |-> <<>>, tool |-> <<>>,
     updated_info_for_response |-> None, search_results_for_response |-> None,
     final_response |-> <<>>, ai_natural_response |-> DEFAULT_REPLY,
     function_result_payload |-> <<>>,
     tool_result_content_for_gemini |-> <<>>,
     response |-> None,
     \* history variables, read by the properties only; error is the text
     \* of the exception an external call of the turn raised
     branch |-> "", load_failed |-> FALSE,
     tool_store_failed |-> FALSE, wrote |-> FALSE, resolved_user_id |-> None,
     error |-> ""]

Init ==
    /\ store = [k \in Keys |-> None]
    /\ ttl = [k \in Keys |-> 0]
    /\ users = {}
    /\ bookings = {}
    /\ turns = 0
    /\ clients \in {[r \in {1} |-> s] : s \in Sessions}
    /\ calls = [initial |-> None, supplied |-> <<>>, booked |-> {}]
    /\ req = [r \in Reqs |-> IdleRequest]

\* ------------------------------------------------- session store, effects
\* client.get(key): the store errors, or answers with the bytes under key.
RedisGet(key, fails) ==
    IF fails THEN [err |-> TRUE]
    ELSE [err |-> FALSE, bytes |-> IF key \in DOMAIN store THEN store[key] ELSE None]

\* A set that keeps the time a key has left when it replaces its value.
SetKeepTtl(st, key, seconds, value) ==
    [store |-> [st.store EXCEPT ![key] = Some(value)],
     ttl |-> [st.ttl EXCEPT ![key] = IF st.store[key] = None THEN seconds ELSE @]]

\* A set that writes only under a key that holds nothing yet.
SetIfAbsent(st, key, seconds, value) ==
    IF st.store[key] = None
    THEN [store |-> [st.store EXCEPT ![key] = Some(value)],
          ttl |-> [st.ttl EXCEPT ![key] = seconds]]
    ELSE [store |-> st.store, ttl |-> st.ttl]

\* client.setex(key, STATE_EXPIRY_SECONDS, value)
Setex(st, key, seconds, value) ==
    [store |-> [st.store EXCEPT ![key] = Some(value)],
     ttl |-> [st.ttl EXCEPT ![key] = seconds]]

\* save_conversation_state: an empty session id writes nothing, a store
\* error is printed and swallowed.
save_conversation_state(st, session_id, info, history, fails) ==
    IF session_id = "" \/ fails THEN st @@ [wrote |-> FALSE]
    ELSE Setex(st, Key(session_id), STATE_EXPIRY_SECONDS, StateJson(info, history))
         @@ [wrote |-> TRUE]

Now == [store |-> store, ttl |-> ttl]

\* ---------------------------------------------------------- chat_endpoint
Update(r, changes) == req' = [req EXCEPT ![r] = changes @@ @]

\* A request arrives; connection_to_gemini gives a model or None, and
\* without a model the request is answered 503 before anything is loaded.
Start(r) ==
    /\ r \in DOMAIN clients
    /\ req[r].pc \in {"idle", "done", "unavailable"}
    /\ turns < MaxTurns
    /\ \E model \in BOOLEAN :
        Update(r, [IdleRequest EXCEPT
                     !.pc = IF model THEN "load" ELSE "unavailable",
                     !.session_id = clients[r],
                     !.user_message_content = UserMessages[turns + 1]])
    /\ turns' = turns + 1
    /\ UNCHANGED <<store, ttl, users, bookings, clients, calls>>

\* state = await load_conversation_state(session_id), lines 89-110
Load(r) ==
    /\ req[r].pc = "load"
    /\ \E fails \in BOOLEAN :
        LET state == load_conversation_state(req[r].session_id,
                         RedisGet(Key(req[r].session_id), fails))
        IN IF state.raised
           THEN Update(r, [pc |-> "crashed"])
           ELSE Update(r, [pc |-> "llm1", load_failed |-> fails,
                           current_info |-> state.value.info,
                           chat_history |-> state.value.history,
                           updated_info_for_response |-> state.value.info])
    /\ UNCHANGED <<store, ttl, users, bookings, turns, clients, calls>>

\* An except handler that words the apology and leaves the info of the
\* response as the tool set it.
ToolFailedKeepsInfo(q, branch) ==
    [pc |-> "save", branch |-> branch,
     ai_natural_response |-> ToolApology(q.function_name),
     search_results_for_response |-> None,
     params |-> <<>>, tool |-> <<>>]

\* The except handler of the tool's try, lines 363-373.
ToolFailed(q, branch) ==
    [pc |-> "save", branch |-> branch,
     ai_natural_response |-> ToolApology(q.function_name),
     updated_info_for_response |-> q.current_info,
     search_results_for_response |-> None,
     function_result_payload |-> <<>>,
     tool_result_content_for_gemini |-> <<>>,
     params |-> <<>>, tool |-> <<>>, error |-> q.error]

\* Lines 156-177 and 247-262: the payload of update_booking_parameters or of
\* check_availability becomes the info of the response; then lines 324-347.
InfoFromPayload(payload) ==
    [pc |-> "llm2", updated_info_for_response |-> Some(ExtractedInfo(payload)),
     function_result_payload |-> payload,
     tool_result_content_for_gemini |-> payload,
     params |-> <<>>, tool |-> <<>>]

\* ListingResult(**item) for every item of the list, lines 179-246.
ListingResult(item) == item

\* Lines 217-237: an absent or zero number gives the fixed text, a
\* description of more than 100 characters its first 100 and "...".
Formatted(format, number, missing) ==
    IF number # None /\ number[1] # 0
    THEN [text |-> format, number |-> number[1]]
    ELSE [text |-> missing, number |-> 0]

listing_summary(item) ==
    [title |-> item.title, city |-> item.city,
     price_per_night |->
        Formatted("${:.2f}", item.price_per_night, "Price not available"),
     max_guests |->
        Formatted("Up to {} guests", item.max_guests, "Guest count not specified"),
     bedrooms |->
        Formatted("{} bedrooms", item.bedrooms, "Bedroom count not available"),
     description_len |-> IF item.description_len > 100 THEN 100 + 3
                         ELSE item.description_len]

\* Lines 209-237: what the second pass is told of a search, the count of
\* the validated listings and the summaries of validated_results[:3].
SearchObservation(validated_results) ==
    [status |-> "success",
     listings_found_count |-> Len(validated_results),
     listings_summary |->
        [i \in 1 .. (IF Len(validated_results) < 3 THEN Len(validated_results) ELSE 3)
            |-> listing_summary(validated_results[i])]]

\* function_result_payload and tool_result_content_for_gemini are kept from
\* the tool's return to the second pass.
SearchProcessed(function_result_payload) ==
    LET validated_results ==
            [i \in DOMAIN function_result_payload |->
                ListingResult(function_result_payload[i])]
    IN [pc |-> "llm2",
        search_results_for_response |-> Some(validated_results),
        function_result_payload |-> function_result_payload,
        tool_result_content_for_gemini |-> SearchObservation(validated_results),
        params |-> <<>>, tool |-> <<>>]

\* Lines 263-287: the payload is what the second pass is told when its
\* status is found or created; under the else of that test the content is
\* replaced.
UserObservation(function_result_payload) ==
    IF function_result_payload.status \in {Some("found"), Some("created")}
    THEN function_result_payload
    ELSE Dict1("error", Some("Invalid tool result format"))

\* Nothing of the user payload is kept for the response.
UserProcessed(function_result_payload) ==
    [pc |-> "llm2", params |-> <<>>, tool |-> <<>>,
     function_result_payload |-> function_result_payload,
     tool_result_content_for_gemini |-> UserObservation(function_result_payload)]

\* Lines 288-318.
BookingProcessed(q, function_result_payload) ==
    [pc |-> "llm2", params |-> <<>>, tool |-> <<>>,
     function_result_payload |-> function_result_payload,
     tool_result_content_for_gemini |-> function_result_payload,
     final_response |->
        IF function_result_payload.status = Some("success")
           /\ "booking_info" \notin DOMAIN q.final_response
        THEN Dict1("booking_info",
                 [k \in {"booking_id", "listing_title", "check_in", "check_out",
                         "total_price"} |-> function_result_payload[k]])
        ELSE q.final_response]

\* What an external call raises with: the text the service gives.
ErrorTexts == {"503 service unavailable", "connection reset by peer"}

\* The text of the exception a pass of the LLM ends with: the client's
\* own when the call raised, none when the handler's own ValueError of
\* lines 125-129 and 349-356 ended it.
RaisedText(kind) == IF kind = "raise" THEN ErrorTexts ELSE {""}

\* No outer handler: the exception leaves chat_endpoint.
GeminiUncaught(q) == [pc |-> "crashed", branch |-> "llm1_failed"]

\* The outer except handler with the text of the exception as its reply.
GeminiFailedRaw(q) ==
    [pc |-> "save", branch |-> "llm1_failed",
     ai_natural_response |-> "ERROR during Gemini interaction or processing: " \o q.error,
     updated_info_for_response |-> q.current_info,
     search_results_for_response |-> None, error |-> q.error]

\* The outer except handler, lines 389-394: gemini_error is printed.
GeminiFailed(q) ==
    [pc |-> "save", branch |-> "llm1_failed",
     ai_natural_response |-> CONNECT_REPLY,
     updated_info_for_response |-> q.current_info,
     search_results_for_response |-> None, error |-> q.error]

\* The first generate_content_async raised, or its response had no
\* candidates or no parts.
FirstPassFailed(r) ==
    /\ req[r].pc = "llm1"
    /\ \E response \in FirstResponses :
        /\ response.kind \in {"raise", "no_candidates", "no_parts"}
        /\ \E e \in RaisedText(response.kind) :
              Update(r, GeminiFailed([error |-> e] @@ req[r]))
    /\ UNCHANGED <<store, ttl, users, bookings, turns, clients, calls>>

\* A direct reply that returns the text and forgets the info of the turn.
DirectReplyClearsInfo(r) ==
    /\ req[r].pc = "llm1"
    /\ \E response \in FirstResponses :
        /\ response.kind = "text"
        /\ Update(r, [pc |-> "save", branch |-> "no_tool",
                      ai_natural_response |-> response.text,
                      updated_info_for_response |-> None,
                      search_results_for_response |-> None])
    /\ UNCHANGED <<store, ttl, users, bookings, turns, clients, calls>>

\* No function call in the first part, lines 382-387.
DirectReply(r) ==
    /\ req[r].pc = "llm1"
    /\ \E response \in FirstResponses :
        /\ response.kind = "text"
        /\ Update(r, [pc |-> "save", branch |-> "no_tool",
                      ai_natural_response |-> response.text,
                      updated_info_for_response |-> req[r].current_info,
                      search_results_for_response |-> None])
    /\ UNCHANGED <<store, ttl, users, bookings, turns, clients, calls>>

Requested(response) ==
    IF response.kind = "function_call" THEN response.function_call
    ELSE [name |-> "", args |-> <<>>]

\* An unknown function name answered by a second pass of the LLM instead
\* of the fixed text.
UnknownToolAsksAgain(r) ==
    /\ req[r].pc = "llm1"
    /\ \E response \in FirstResponses :
        /\ response.kind = "function_call"
        /\ Requested(response).name \notin available_tools
        /\ Update(r, [pc |-> "llm2", branch |-> "unknown_tool",
                      function_name |-> Requested(response).name])
    /\ UNCHANGED <<store, ttl, users, bookings, turns, clients, calls>>

\* The function is not in available_tools, lines 375-380.
UnknownTool(r) ==
    /\ req[r].pc = "llm1"
    /\ \E response \in FirstResponses :
        /\ response.kind = "function_call"
        /\ Requested(response).name \notin available_tools
        /\ Update(r, [pc |-> "save", branch |-> "unknown_tool",
                      function_name |-> Requested(response).name,
                      ai_natural_response |-> CONFUSED_REPLY,
                      updated_info_for_response |-> req[r].current_info,
                      search_results_for_response |-> None])
    /\ UNCHANGED <<store, ttl, users, bookings, turns, clients, calls>>

\* Lines 147-153: the arguments the tool is called with.
FunctionArgs(r, call) == InjectSession(call.args, req[r].session_id)

\* A first response that asks for tool name.
Asks(r, response, name) ==
    /\ req[r].pc = "llm1"
    /\ response.kind = "function_call"
    /\ Requested(response).name = name

Called(r, call) ==
    [function_name |-> call.name,
     params |-> BindParams(call.name, FunctionArgs(r, call))] @@ req[r]

\* tool_function(**function_args) raises TypeError: the arguments do not
\* fit the tool's parameters.
DispatchRejected(r) ==
    /\ \E response \in FirstResponses :
        /\ req[r].pc = "llm1"
        /\ response.kind = "function_call"
        /\ Requested(response).name \in available_tools
        /\ ~Binds(Requested(response).name, FunctionArgs(r, Requested(response)))
        /\ LET q == [function_name |-> Requested(response).name] @@ req[r]
           IN Update(r, ToolFailed(q, "tool_raised")
                        @@ [function_name |-> q.function_name])
    /\ UNCHANGED <<store, ttl, users, bookings, turns, clients, calls>>

\* update_booking_parameters and search_listings start with the await of
\* their load.
DispatchUpdate(r) ==
    /\ \E response \in FirstResponses :
        /\ Asks(r, response, "update_booking_parameters")
        /\ Binds(Requested(response).name, FunctionArgs(r, Requested(response)))
        /\ Update(r, [pc |-> "update_load"] @@ Called(r, Requested(response)))
    /\ UNCHANGED <<store, ttl, users, bookings, turns, clients, calls>>

DispatchSearch(r) ==
    /\ \E response \in FirstResponses :
        /\ Asks(r, response, "search_listings")
        /\ Binds(Requested(response).name, FunctionArgs(r, Requested(response)))
        /\ Update(r, [pc |-> "search_load"] @@ Called(r, Requested(response)))
    /\ UNCHANGED <<store, ttl, users, bookings, turns, clients, calls>>

\* check_availability runs its queries before its first await.
DispatchAvailability(r) ==
    /\ \E response \in FirstResponses, dbfail \in DbFails :
        /\ Asks(r, response, "check_availability")
        /\ Binds(Requested(response).name, FunctionArgs(r, Requested(response)))
        /\ LET q == Called(r, Requested(response))
               ran == check_availability(q.params, bookings, dbfail)
           IN CASE ran.out = "raise" ->
                     \E e \in ErrorTexts :
                        Update(r, ToolFailed([error |-> e] @@ q, "tool_raised") @@ q)
                [] ran.out = "return" ->
                     Update(r, InfoFromPayload(ran.payload)
                               @@ [branch |-> "tool_returned"] @@ q)
                [] ran.out = "await" ->
                     Update(r, [pc |-> "availability_load",
                                tool |-> [price_per_night |-> ran.price_per_night,
                                          nights |-> ran.nights]] @@ q)
    /\ UNCHANGED <<store, ttl, users, bookings, turns, clients, calls>>

DispatchUser(r) ==
    /\ \E response \in FirstResponses, dbfail \in 0 .. 2 :
        /\ Asks(r, response, "get_or_create_user")
        /\ Binds(Requested(response).name, FunctionArgs(r, Requested(response)))
        /\ LET q == Called(r, Requested(response))
               ran == get_or_create_user(q.params, users, dbfail)
           IN /\ users' = ran.users
              /\ IF ran.out = "return"
                 THEN Update(r, UserProcessed(ran.payload)
                                @@ [branch |-> "tool_returned"] @@ q)
                 ELSE Update(r, [pc |-> "user_load",
                                 resolved_user_id |-> Some(ran.user_id),
                                 tool |-> [status |-> ran.status,
                                           user_id |-> ran.user_id,
                                           params |-> ran.params]] @@ q)
    /\ UNCHANGED <<store, ttl, bookings, turns, clients, calls>>

DispatchBooking(r) ==
    /\ \E response \in FirstResponses, dbfail \in DbFails :
        /\ Asks(r, response, "create_booking")
        /\ Binds(Requested(response).name, FunctionArgs(r, Requested(response)))
        /\ LET q == Called(r, Requested(response))
               ran == create_booking(q.params, bookings, dbfail)
           IN /\ bookings' = ran.bookings
              /\ Update(r, BookingProcessed(q, ran.payload)
                           @@ [branch |-> "tool_returned"] @@ q)
    /\ UNCHANGED <<store, ttl, users, turns, clients, calls>>

\* update_booking_parameters, lines 24-50: its load returns, it merges and
\* awaits its save.
UpdateLoad(r) ==
    /\ req[r].pc = "update_load"
    /\ \E fails \in BOOLEAN :
        LET current_state == load_conversation_state(req[r].params.session_id[1],
                                 RedisGet(Key(req[r].params.session_id[1]), fails))
        IN Update(r, [pc |-> "update_save",
                      tool_store_failed |-> fails,
                      tool |-> [updated_info_model |->
                                    UpdateMerge(current_state.value.info, req[r].params),
                                history |-> current_state.value.history]])
    /\ UNCHANGED <<store, ttl, users, bookings, turns, clients, calls>>

\* update_booking_parameters, lines 50-54, then lines 156-177 and 324-347 of
\* chat_endpoint: the save returns, the tool returns the dump of the merged
\* info, and the second pass is awaited.
UpdateSave(r) ==
    /\ req[r].pc = "update_save"
    /\ \E fails \in BOOLEAN :
        LET after == save_conversation_state(Now, req[r].params.session_id[1],
                         Some(req[r].tool.updated_info_model), req[r].tool.history, fails)
            function_result_payload == req[r].tool.updated_info_model
        IN /\ store' = after.store
           /\ ttl' = after.ttl
           /\ Update(r, InfoFromPayload(function_result_payload)
                        @@ [branch |-> "tool_returned",
                            tool_store_failed |-> req[r].tool_store_failed \/ fails])
    /\ UNCHANGED <<users, bookings, turns, clients, calls>>

\* search_listings, lines 47-157, then lines 178-246 and 324-347.
SearchLoad(r) ==
    /\ req[r].pc = "search_load"
    /\ \E fails \in BOOLEAN, dbfail \in 0 .. 2 :
        LET state == load_conversation_state(req[r].params.session_id[1],
                         RedisGet(Key(req[r].params.session_id[1]), fails))
        IN Update(r, SearchProcessed(search_listings(req[r].params, dbfail))
                     @@ [branch |-> "tool_returned",
                         tool_store_failed |-> fails])
    /\ UNCHANGED <<store, ttl, users, bookings, turns, clients, calls>>

\* check_availability, lines 118-120 (or 132-136): the load returns and the
\* item assignment on its info raises out of the tool.
AvailabilityLoad(r) ==
    /\ req[r].pc = "availability_load"
    /\ \E fails \in BOOLEAN :
        LET state == load_conversation_state(req[r].params.session_id[1],
                         RedisGet(Key(req[r].params.session_id[1]), fails))
        IN /\ ~SupportsItemAssignment(state.value.info)
           /\ Update(r, ToolFailed(req[r], "tool_raised")
                        @@ [tool_store_failed |-> fails])
    /\ UNCHANGED <<store, ttl, users, bookings, turns, clients, calls>>

\* get_or_create_user, lines 94-123, then lines 263-287 and 324-347.
UserLoad(r) ==
    /\ req[r].pc = "user_load"
    /\ \E fails \in BOOLEAN :
        LET state == load_conversation_state(req[r].params.session_id[1],
                         RedisGet(Key(req[r].params.session_id[1]), fails))
            t == req[r].tool
        IN Update(r, UserProcessed(get_or_create_user_resume(t.status, t.user_id, t.params))
                     @@ [branch |-> "tool_returned", tool_store_failed |-> fails])
    /\ UNCHANGED <<store, ttl, users, bookings, turns, clients, calls>>

\* The second generate_content_async, lines 345-360.
SecondPass(r) ==
    /\ req[r].pc = "llm2"
    /\ \E second_response \in SecondResponses :
        /\ second_response.kind = "text"
        /\ Update(r, [pc |-> "save", ai_natural_response |-> second_response.text,
                      function_result_payload |-> <<>>,
                      tool_result_content_for_gemini |-> <<>>])
    /\ UNCHANGED <<store, ttl, users, bookings, turns, clients, calls>>

\* A second pass whose failure sends the turn back to the first pass.
SecondPassRetried(r) ==
    /\ req[r].pc = "llm2"
    /\ \E second_response \in SecondResponses :
        /\ second_response.kind # "text"
        /\ Update(r, [pc |-> "llm1"])
    /\ UNCHANGED <<store, ttl, users, bookings, turns, clients, calls>>

\* The second pass raised or came back empty: the tool's except handler.
SecondPassFailed(r) ==
    /\ req[r].pc = "llm2"
    /\ \E second_response \in SecondResponses :
        /\ second_response.kind # "text"
        /\ \E e \in RaisedText(second_response.kind) :
              Update(r, ToolFailed([error |-> e] @@ req[r], "llm2_failed"))
    /\ UNCHANGED <<store, ttl, users, bookings, turns, clients, calls>>

\* A turn that records the reply alone.
FinalHistoryWithoutUser(q) ==
    q.chat_history \o <<Message("assistant", q.ai_natural_response)>>

\* Lines 397-402.
FinalHistory(q) ==
    q.chat_history \o <<Message("user", q.user_message_content),
                        Message("assistant", q.ai_natural_response)>>

\* ChatResponse(response=, updated_info=, search_results=): the schema has
\* the fields response and updated_info, any other keyword is dropped.
ChatResponse(kwargs) == [k \in {"response", "updated_info"} |-> kwargs[k]]

\* chat_endpoint returns: its locals are gone, the caller holds the response.
Returned(q, wrote, response) ==
    [pc |-> "done", response |-> Some(response), wrote |-> wrote,
     session_id |-> q.session_id, user_message_content |-> q.user_message_content,
     function_name |-> q.function_name, branch |-> q.branch,
     load_failed |-> q.load_failed, tool_store_failed |-> q.tool_store_failed,
     resolved_user_id |-> q.resolved_user_id]
    @@ IdleRequest

\* A final save whose store error is not caught: the exception leaves
\* chat_endpoint before the response is built.
FinalSaveUncaught(r) ==
    /\ req[r].pc = "save"
    /\ \E fails \in BOOLEAN :
        LET q == req[r]
            after == save_conversation_state(Now, q.session_id,
                         q.updated_info_for_response, FinalHistory(q), fails)
        IN /\ store' = after.store
           /\ ttl' = after.ttl
           /\ IF fails THEN Update(r, [pc |-> "crashed"])
              ELSE Update(r, Returned(q, after.wrote, ChatResponse(
                             [response |-> q.ai_natural_response,
                              updated_info |-> q.updated_info_for_response,
                              search_results |-> q.search_results_for_response])))
    /\ UNCHANGED <<users, bookings, turns, clients, calls>>

\* A final save that stores the info the turn loaded.
FinalSaveLoadedInfo(r) ==
    /\ req[r].pc = "save"
    /\ \E fails \in BOOLEAN :
        LET q == req[r]
            after == save_conversation_state(Now, q.session_id,
                         q.current_info, FinalHistory(q), fails)
        IN /\ store' = after.store
           /\ ttl' = after.ttl
           /\ Update(r, Returned(q, after.wrote, ChatResponse(
                             [response |-> q.ai_natural_response,
                              updated_info |-> q.updated_info_for_response,
                              search_results |-> q.search_results_for_response])))
    /\ UNCHANGED <<users, bookings, turns, clients, calls>>

\* Lines 396-412: the save of the turn, then the response.
FinalSave(r) ==
    /\ req[r].pc = "save"
    /\ \E fails \in BOOLEAN :
        LET q == req[r]
            after == save_conversation_state(Now, q.session_id,
                         q.updated_info_for_response, FinalHistory(q), fails)
        IN /\ store' = after.store
           /\ ttl' = after.ttl
           /\ Update(r, Returned(q, after.wrote, ChatResponse(
                             [response |-> q.ai_natural_response,
                              updated_info |-> q.updated_info_for_response,
                              search_results |-> q.search_results_for_response])))
    /\ UNCHANGED <<users, bookings, turns, clients, calls>>

Next ==
    \E r \in Reqs :
        \/ Start(r)
        \/ Load(r)
        \/ FirstPassFailed(r)
        \/ DirectReply(r)
        \/ UnknownTool(r)
        \/ DispatchRejected(r)
        \/ DispatchUpdate(r)
        \/ DispatchSearch(r)
        \/ DispatchAvailability(r)
        \/ DispatchUser(r)
        \/ DispatchBooking(r)
        \/ UpdateLoad(r)
        \/ UpdateSave(r)
        \/ SearchLoad(r)
        \/ AvailabilityLoad(r)
        \/ UserLoad(r)
        \/ SecondPass(r)
        \/ SecondPassFailed(r)
        \/ FinalSave(r)

Spec == Init /\ [][Next]_vars

\* ---------------------------------------------- two clients, interleaved
\* Two requests in flight, on the same session or on two; the LLM answers
\* with a text, fails, or asks for update_booking_parameters.
InitConcurrent ==
    /\ store = [k \in Keys |-> None]
    /\ ttl = [k \in Keys |-> 0]
    /\ users = {}
    /\ bookings = {}
    /\ turns = 0
    /\ clients \in [Reqs -> Sessions]
    /\ calls = [initial |-> None, supplied |-> <<>>, booked |-> {}]
    /\ req = [r \in Reqs |-> IdleRequest]

\* The positions of a request inside chat_endpoint.
InFlight ==
    {"load", "llm1", "update_load", "update_save", "search_load",
     "availability_load", "user_load", "llm2", "save"}

\* Each client posts one message.
StartOnce(r) == Start(r) /\ req[r].pc = "idle"

NextConcurrent ==
    \E r \in Reqs :
        \/ StartOnce(r)
        \/ Load(r)
        \/ FirstPassFailed(r)
        \/ DirectReply(r)
        \/ DispatchUpdate(r)
        \/ UpdateLoad(r)
        \/ UpdateSave(r)
        \/ SecondPass(r)
        \/ SecondPassFailed(r)
        \/ FinalSave(r)

SpecConcurrent == InitConcurrent /\ [][NextConcurrent]_vars

\* ------------------------------- update_booking_parameters called directly
\* The record under the session's key before the first call: none, one a
\* turn without a tool left, or one with a destination and guests.
InitialRecords ==
    {[bytes |-> None, info |-> None],
     [bytes |-> Some(StateJson(None, <<Message("user", "first message"),
                                       Message("assistant", "Here is what I found.")>>)),
      info |-> None],
     [bytes |-> Some(StateJson(
                    Some(ExtractedInfo([destination |-> Some("Rome"),
                                        guests |-> Some(4)])), <<>>)),
      info |-> Some(ExtractedInfo([destination |-> Some("Rome"),
                                   guests |-> Some(4)]))]}

InitMerge ==
    /\ \E initial \in InitialRecords :
        /\ store = [k \in Keys |-> IF k = Key("a") THEN initial.bytes ELSE None]
        /\ calls = [initial |-> initial.info, supplied |-> <<>>, booked |-> {}]
    /\ ttl = [k \in Keys |-> 0]
    /\ users = {}
    /\ bookings = {}
    /\ turns = 0
    /\ clients = [r \in {1} |-> "a"]
    /\ req = [r \in Reqs |-> IdleRequest]

\* A caller awaits update_booking_parameters(session_id, **args), the
\* previous call, if any, having returned.
CallUpdate(r) ==
    /\ r \in DOMAIN clients
    /\ req[r].pc \in {"idle", "llm2"}
    /\ Len(calls.supplied) < MaxCalls
    /\ \E args \in MergeCalls :
        /\ Update(r, [IdleRequest EXCEPT
                        !.pc = "update_load",
                        !.session_id = clients[r],
                        !.function_name = "update_booking_parameters",
                        !.params = BindParams("update_booking_parameters",
                                       InjectSession(args, clients[r]))])
        /\ calls' = [calls EXCEPT !.supplied = Append(@, args)]
    /\ UNCHANGED <<store, ttl, users, bookings, turns, clients>>

\* The tool's load and save against a session store that answers.
UpdateLoadAnswered(r) == UpdateLoad(r) /\ ~req'[r].tool_store_failed

UpdateSaveAnswered(r) == UpdateSave(r) /\ ~req'[r].tool_store_failed

NextMerge ==
    \E r \in Reqs :
        \/ CallUpdate(r)
        \/ UpdateLoadAnswered(r)
        \/ UpdateSaveAnswered(r)

SpecMerge == InitMerge /\ [][NextMerge]_vars

\* ------------------------------------------- what a load finds in the store
\* Values under a key that this program did not write, or wrote wrongly.
StoredSamples ==
    <<None,
     Some([enc |-> "empty"]),
     Some([enc |-> "latin1"]),
     Some([enc |-> "text"]),
     Some([enc |-> "json", doc |-> JArr(<<>>)]),
     Some([enc |-> "json", doc |-> JObj(<<>>)]),
     Some([enc |-> "json", doc |-> JObj([info |-> JStr("x"), history |-> JArr(<<>>)])]),
     Some([enc |-> "json",
           doc |-> JObj([info |-> JObj([guests |-> JStr("two")]),
                         history |-> JArr(<<>>)])]),
     Some([enc |-> "json", doc |-> JObj([info |-> JNull, history |-> JNull])]),
     Some([enc |-> "json",
           doc |-> JObj([info |-> JNull,
                         history |-> JArr(<<JObj([role |-> JStr("user"),
                                                  content |-> JNum(7)])>>)])]),
     Some([enc |-> "json",
           doc |-> JObj([info |-> JNull,
                         history |-> JArr(<<JStr("hello"),
                                            JObj([role |-> JStr("user"),
                                                  content |-> JStr("hi")])>>)])]),
     Some(StateJson(Some(ExtractedInfo([destination |-> Some("Rome")])),
                    <<Message("user", "hi"), Message("assistant", "hello")>>))>>

InitLoad ==
    /\ \E i \in DOMAIN StoredSamples :
        store = [k \in Keys |-> IF k = Key("a") THEN StoredSamples[i] ELSE None]
    /\ ttl = [k \in Keys |-> 0]
    /\ users = {}
    /\ bookings = {}
    /\ turns = 0
    /\ clients \in {[r \in {1} |-> s] : s \in Sessions \cup {""}}
    /\ calls = [initial |-> None, supplied |-> <<>>, booked |-> {}]
    /\ req = [r \in Reqs |-> IdleRequest]

\* Turns without a tool.
NextLoad ==
    \E r \in Reqs :
        \/ Start(r)
        \/ Load(r)
        \/ FirstPassFailed(r)
        \/ DirectReply(r)
        \/ FinalSave(r)

SpecLoad == InitLoad /\ [][NextLoad]_vars

\* ------------------------------------------------------- records expire
\* Seconds that may pass between two steps.
Elapses == {1800, 3600, 7200}

\* Time passes: the store counts down every key set with an expiry and
\* removes those whose time is up.
Tick ==
    /\ \E k \in Keys : ttl[k] > 0
    /\ \E d \in Elapses :
        /\ store' = [k \in Keys |-> IF ttl[k] <= d THEN None ELSE store[k]]
        /\ ttl' = [k \in Keys |-> IF ttl[k] <= d THEN 0 ELSE ttl[k] - d]
    /\ UNCHANGED <<users, bookings, turns, clients, calls, req>>

\* Turns of one client, with update_booking_parameters as the only tool the
\* LLM asks for, while time passes.
NextExpiry ==
    \/ Tick
    \/ \E r \in Reqs :
        \/ Start(r)
        \/ Load(r)
        \/ FirstPassFailed(r)
        \/ DirectReply(r)
        \/ DispatchUpdate(r)
        \/ UpdateLoad(r)
        \/ UpdateSave(r)
        \/ SecondPass(r)
        \/ SecondPassFailed(r)
        \/ FinalSave(r)

SpecExpiry == Init /\ [][NextExpiry]_vars

\* ---------------------------------------- get_or_create_user called directly
DirectUserCalls ==
    {Supplied(f) : f \in [email : {Some("ann@x.io"), Some("bob@x.io"), Some("ann"),
                                   Some("")},
                          full_name : {Some("Ann")},
                          phone_number : {None, Some("555")}]}

\* What a direct call was given and what it gave: a payload, or an exception.
Gave(name, args, dbfail, out, payload) ==
    [name |-> name, args |-> args, dbfail |-> dbfail, out |-> out,
     payload |-> payload]

\* A caller awaits get_or_create_user(session_id, **args), the previous
\* call having returned: lines 26-93, up to the tool's load.
CallUser(r) ==
    /\ r \in DOMAIN clients
    /\ req[r].pc \in {"idle", "returned"}
    /\ Len(calls.supplied) < MaxCalls
    /\ \E args \in DirectUserCalls, dbfail \in 0 .. 2 :
        LET params == BindParams("get_or_create_user",
                          InjectSession(args, clients[r]))
            ran == get_or_create_user(params, users, dbfail)
        IN /\ users' = ran.users
           /\ IF ran.out = "return"
              THEN /\ Update(r, [IdleRequest EXCEPT !.pc = "returned"])
                   /\ calls' = [calls EXCEPT !.supplied = Append(@,
                          Gave("get_or_create_user", args, dbfail, "return",
                               ran.payload))]
              ELSE /\ Update(r, [IdleRequest EXCEPT
                                   !.pc = "user_load",
                                   !.session_id = clients[r],
                                   !.function_name = "get_or_create_user",
                                   !.params = params,
                                   !.tool = [status |-> ran.status,
                                             user_id |-> ran.user_id,
                                             params |-> ran.params,
                                             args |-> args, dbfail |-> dbfail]])
                   /\ calls' = calls
    /\ UNCHANGED <<store, ttl, bookings, turns, clients>>

\* Lines 94-123: the tool's load returns, its save is called, the tool
\* returns its result.
UserReturn(r) ==
    /\ r \in DOMAIN clients
    /\ req[r].pc = "user_load"
    /\ \E fails \in BOOLEAN :
        LET state == load_conversation_state(req[r].params.session_id[1],
                         RedisGet(Key(req[r].params.session_id[1]), fails))
            t == req[r].tool
        IN /\ Update(r, [IdleRequest EXCEPT !.pc = "returned"])
           /\ calls' = [calls EXCEPT !.supplied = Append(@,
                  Gave("get_or_create_user", t.args, t.dbfail, "return",
                       get_or_create_user_resume(t.status, t.user_id, t.params)))]
    /\ UNCHANGED <<store, ttl, users, bookings, turns, clients>>

NextUserCalls ==
    \E r \in Reqs :
        \/ CallUser(r)
        \/ UserReturn(r)

SpecUserCalls == Init /\ [][NextUserCalls]_vars

\* ------------------------- check_availability and create_booking called directly
DirectAvailabilityCalls ==
    {Supplied(f) : f \in [name : {Some("Loft"), Some("Villa"), Some("Nope")},
                          check_in : {None, Some("2025-07-10"), Some("2025-07-12"),
                                      Some("2025-07-15"), Some("soon")},
                          check_out : {None, Some("2025-07-14"), Some("2025-07-15")}]}

DirectBookingCalls ==
    {Supplied(f) : f \in [user_id : {Some(""), Some("1")},
                          listing_id : {Some("L1"), Some("")},
                          check_in : {Some("2025-07-10"), Some("2025-07-12"),
                                      Some("soon")},
                          check_out : {Some("2025-07-12"), Some("2025-07-14")},
                          num_guests : {Some(2)},
                          total_price : {Some(240)}]}

\* A caller awaits check_availability(session_id, **args): lines 27-117, up
\* to the tool's load. calls.supplied holds the last call that returned.
CallAvailability(r) ==
    /\ r \in DOMAIN clients
    /\ req[r].pc \in {"idle", "returned"}
    /\ \E args \in DirectAvailabilityCalls, dbfail \in DbFails :
        LET params == BindParams("check_availability",
                          InjectSession(args, clients[r]))
            ran == check_availability(params, bookings, dbfail)
        IN IF ran.out = "await"
           THEN /\ Update(r, [IdleRequest EXCEPT
                                !.pc = "availability_load",
                                !.session_id = clients[r],
                                !.function_name = "check_availability",
                                !.params = params,
                                !.tool = [price_per_night |-> ran.price_per_night,
                                          nights |-> ran.nights,
                                          args |-> args, dbfail |-> dbfail]])
                /\ calls' = calls
           ELSE /\ Update(r, [IdleRequest EXCEPT !.pc = "returned"])
                /\ calls' = [calls EXCEPT !.supplied =
                       <<Gave("check_availability", args, dbfail, ran.out,
                              IF ran.out = "return" THEN ran.payload ELSE <<>>)>>]
    /\ UNCHANGED <<store, ttl, users, bookings, turns, clients>>

\* Lines 118-120 (or 132-136): the tool's load returns and the item
\* assignment on its info raises out of the tool.
AvailabilityReturn(r) ==
    /\ r \in DOMAIN clients
    /\ req[r].pc = "availability_load"
    /\ \E fails \in BOOLEAN :
        LET state == load_conversation_state(req[r].params.session_id[1],
                         RedisGet(Key(req[r].params.session_id[1]), fails))
            t == req[r].tool
        IN /\ ~SupportsItemAssignment(state.value.info)
           /\ Update(r, [IdleRequest EXCEPT !.pc = "returned"])
           /\ calls' = [calls EXCEPT !.supplied =
                  <<Gave("check_availability", t.args, t.dbfail, "raise", <<>>)>>]
    /\ UNCHANGED <<store, ttl, users, bookings, turns, clients>>

\* A caller awaits create_booking(session_id, **args): the call has no await
\* of its own and runs to its return in one step.
CallBooking(r) ==
    /\ r \in DOMAIN clients
    /\ req[r].pc \in {"idle", "returned"}
    /\ \E args \in DirectBookingCalls, dbfail \in DbFails :
        LET params == BindParams("create_booking",
                          InjectSession(args, clients[r]))
            ran == create_booking(params, bookings, dbfail)
        IN /\ bookings' = ran.bookings
           /\ Update(r, [IdleRequest EXCEPT !.pc = "returned"])
           /\ calls' = [calls EXCEPT
                  !.supplied = <<Gave("create_booking", args, dbfail, "return",
                                      ran.payload)>>,
                  !.booked = IF ran.payload.status = Some("success")
                             THEN @ \cup {ran.payload.booking_id[1]} ELSE @]
    /\ UNCHANGED <<store, ttl, users, turns, clients>>

NextBookingCalls ==
    \E r \in Reqs :
        \/ CallAvailability(r)
        \/ AvailabilityReturn(r)
        \/ CallBooking(r)

SpecBookingCalls == Init /\ [][NextBookingCalls]_vars

\* --------------------------------------- create_booking, one call at a time
\* Bookings of two listings over ranges that overlap, touch or lie apart.
SeriesBookingCalls ==
    {Supplied(f) : f \in [user_id : {Some("1")},
                          listing_id : {Some("L1"), Some("L2")},
                          check_in : {Some("2025-07-10"), Some("2025-07-12"),
                                      Some("2025-07-14")},
                          check_out : {Some("2025-07-12"), Some("2025-07-14"),
                                       Some("2025-07-15")},
                          num_guests : {Some(2)},
                          total_price : {Some(240)}]}

\* A caller awaits create_booking(session_id, **args), lines 112-233, and
\* gets its payload before the next call starts; calls.booked keeps the ids
\* of the bookings confirmed.
BookInSequence(r) ==
    /\ r \in DOMAIN clients
    /\ req[r].pc \in {"idle", "returned"}
    /\ \E args \in SeriesBookingCalls, dbfail \in DbFails :
        LET params == BindParams("create_booking",
                          InjectSession(args, clients[r]))
            ran == create_booking(params, bookings, dbfail)
        IN /\ bookings' = ran.bookings
           /\ Update(r, [IdleRequest EXCEPT !.pc = "returned"])
           /\ calls' = [calls EXCEPT
                  !.booked = IF ran.payload.status = Some("success")
                             THEN @ \cup {ran.payload.booking_id[1]} ELSE @]
    /\ UNCHANGED <<store, ttl, users, turns, clients>>

NextBookingSeries == \E r \in Reqs : BookInSequence(r)

SpecBookingSeries == Init /\ [][NextBookingSeries]_vars

\* ------------------------------------------------- a save and then a load
\* What save_conversation_state is handed: no info, or one whose fields are
\* absent, falsy or ordinary values; a history of up to two messages.
RoundTripInfos ==
    {None} \cup
    {Some(ExtractedInfo(f)) :
        f \in [destination : {None, Some(""), Some("Paris")},
               check_in : {None, Some("2025-07-10")},
               check_out : {None},
               guests : {None, Some(0), Some(2)}]}

RoundTripMessages ==
    {Message("user", "hi"), Message("model", "hello"), Message("user", "")}

RoundTripHistories ==
    {<<>>} \cup {<<m>> : m \in RoundTripMessages}
           \cup {<<m, n>> : m, n \in RoundTripMessages}

\* A caller awaits save_conversation_state(session_id, info, history).
SaveState(r) ==
    /\ r \in DOMAIN clients
    /\ req[r].pc = "idle"
    /\ \E info \in RoundTripInfos, history \in RoundTripHistories,
          fails \in BOOLEAN :
        LET saved == save_conversation_state(Now, clients[r], info, history, fails)
        IN /\ store' = saved.store
           /\ ttl' = saved.ttl
           /\ calls' = [calls EXCEPT !.supplied = Append(@,
                  Gave("save_conversation_state",
                       [session_id |-> clients[r], info |-> info,
                        history |-> history],
                       IF fails THEN 1 ELSE 0, "return",
                       [wrote |-> saved.wrote]))]
    /\ Update(r, [IdleRequest EXCEPT !.pc = "saved"])
    /\ UNCHANGED <<users, bookings, turns, clients>>

\* The same caller then awaits load_conversation_state(session_id).
LoadState(r) ==
    /\ r \in DOMAIN clients
    /\ req[r].pc = "saved"
    /\ \E fails \in BOOLEAN :
        LET state == load_conversation_state(clients[r],
                         RedisGet(Key(clients[r]), fails))
        IN calls' = [calls EXCEPT !.supplied = Append(@,
               Gave("load_conversation_state", [session_id |-> clients[r]],
                    IF fails THEN 1 ELSE 0, "return", state.value))]
    /\ Update(r, [IdleRequest EXCEPT !.pc = "returned"])
    /\ UNCHANGED <<store, ttl, users, bookings, turns, clients>>

InitRoundTrip ==
    /\ store = [k \in Keys |-> None]
    /\ ttl = [k \in Keys |-> 0]
    /\ users = {}
    /\ bookings = {}
    /\ turns = 0
    /\ clients \in {[r \in {1} |-> s] : s \in Sessions \cup {""}}
    /\ calls = [initial |-> None, supplied |-> <<>>, booked |-> {}]
    /\ req = [r \in Reqs |-> IdleRequest]

NextRoundTrip ==
    \/ \E r \in Reqs :
        \/ SaveState(r)
        \/ LoadState(r)
    \/ Tick

SpecRoundTrip == InitRoundTrip /\ [][NextRoundTrip]_vars


\* ------------------------------------- create_booking in two server processes
\* The two callers book for a known user and listing.
RaceBookingCalls ==
    {args \in DirectBookingCalls : args.user_id # "" /\ args.listing_id # ""}

\* uuid4, line 157: an id no other call draws.
Uuid4(r, bookings_rows) == 10 * r + Cardinality(bookings_rows)

\* Caller r's server process runs create_booking up to the answer of its
\* overlap query, lines 120-177; the relational store is shared with the
\* other process, which may run between this query and the insert.
BookingQuery(r) ==
    /\ req[r].pc \in {"idle", "returned"}
    /\ \E args \in RaceBookingCalls, dbfail \in DbFails :
        LET params == BindParams("create_booking",
                          InjectSession(args, clients[r]))
            ran == create_booking_query(params, bookings, dbfail)
        IN IF ran.out = "insert"
           THEN /\ Update(r, [IdleRequest EXCEPT
                                !.pc = "booking_insert",
                                !.session_id = clients[r],
                                !.function_name = "create_booking",
                                !.params = params,
                                !.tool = [booking_id |-> Uuid4(r, bookings),
                                          args |-> args, dbfail |-> dbfail]])
                /\ calls' = calls
           ELSE /\ Update(r, [IdleRequest EXCEPT !.pc = "returned"])
                /\ calls' = [calls EXCEPT !.supplied =
                       <<Gave("create_booking", args, dbfail, "return",
                              ran.payload)>>]
    /\ UNCHANGED <<store, ttl, users, bookings, turns, clients>>

\* Lines 180-233 in caller r's process: the insert, the listing lookup, the
\* return.
BookingInsert(r) ==
    /\ req[r].pc = "booking_insert"
    /\ LET t == req[r].tool
           ran == create_booking_insert(t.booking_id, req[r].params, bookings,
                                        t.dbfail)
       IN /\ bookings' = ran.bookings
          /\ Update(r, [IdleRequest EXCEPT !.pc = "returned"])
          /\ calls' = [calls EXCEPT
                 !.supplied = <<Gave("create_booking", t.args, t.dbfail, "return",
                                     ran.payload)>>,
                 !.booked = IF ran.payload.status = Some("success")
                            THEN @ \cup {ran.payload.booking_id[1]} ELSE @]
    /\ UNCHANGED <<store, ttl, users, turns, clients>>

NextBookingRace ==
    \E r \in Reqs :
        \/ BookingQuery(r)
        \/ BookingInsert(r)

SpecBookingRace == InitConcurrent /\ [][NextBookingRace]_vars

\* ------------------------------------------ search_listings called directly
DirectSearchCalls ==
    {Supplied(f) : f \in [destination : {None, Some("Paris"), Some("Rome"),
                                         Some("Nowhereville")},
                          country : {None, Some("Italy")},
                          guests : {None, Some(2), Some(6)},
                          limit : {None, Some(1)}]}

\* A caller awaits search_listings(session_id, **args): lines 42-47, up to
\* the tool's load.
CallSearch(r) ==
    /\ r \in DOMAIN clients
    /\ req[r].pc \in {"idle", "returned"}
    /\ \E args \in DirectSearchCalls :
        Update(r, [IdleRequest EXCEPT
                     !.pc = "search_load",
                     !.session_id = clients[r],
                     !.function_name = "search_listings",
                     !.params = BindParams("search_listings",
                                    InjectSession(args, clients[r])),
                     !.tool = [args |-> args]])
    /\ UNCHANGED <<store, ttl, users, bookings, turns, clients, calls>>

\* Lines 47-157: the load returns, the tool queries the listings and
\* returns its list. calls.supplied holds the last call that returned, with
\* the list and the queries that were executed for it.
SearchReturn(r) ==
    /\ r \in DOMAIN clients
    /\ req[r].pc = "search_load"
    /\ \E fails \in BOOLEAN, dbfail \in 0 .. 2 :
        LET state == load_conversation_state(req[r].params.session_id[1],
                         RedisGet(Key(req[r].params.session_id[1]), fails))
        IN /\ Update(r, [IdleRequest EXCEPT !.pc = "returned"])
           /\ calls' = [calls EXCEPT !.supplied =
                  <<Gave("search_listings", req[r].tool.args, dbfail, "return",
                         [results |-> search_listings(req[r].params, dbfail),
                          queries |-> listing_queries(req[r].params, dbfail)])>>]
    /\ UNCHANGED <<store, ttl, users, bookings, turns, clients>>

NextSearchCalls ==
    \E r \in Reqs :
        \/ CallSearch(r)
        \/ SearchReturn(r)

SpecSearchCalls == Init /\ [][NextSearchCalls]_vars

\* ------------------------------------------- one turn on a stored record
\* One client posts one message on a session whose record is any of
\* InitialRecords.
NextTurn ==
    \E r \in Reqs :
        \/ StartOnce(r)
        \/ Load(r)
        \/ FirstPassFailed(r)
        \/ DirectReply(r)
        \/ UnknownTool(r)
        \/ DispatchRejected(r)
        \/ DispatchUpdate(r)
        \/ DispatchSearch(r)
        \/ DispatchAvailability(r)
        \/ DispatchUser(r)
        \/ DispatchBooking(r)
        \/ UpdateLoad(r)
        \/ UpdateSave(r)
        \/ SearchLoad(r)
        \/ AvailabilityLoad(r)
        \/ UserLoad(r)
        \/ SecondPass(r)
        \/ SecondPassFailed(r)
        \/ FinalSave(r)

SpecTurn == InitMerge /\ [][NextTurn]_vars

\* ============================================================== claims
\* What a load would read back from the bytes under the key of session_id.
Stored(st, session_id) == LoadBody(st[Key(session_id)]).value

\* The step in which request r's final save returns and the response goes
\* to the caller.
Completes(r) == req[r].pc = "save" /\ req'[r].pc = "done"

\* C1: every completed turn whose final save writes leaves, under the
\* session's key, the history the turn loaded followed by exactly the user
\* message and the returned reply, whichever branch the turn took.
C1_HistoryGrowsByTwo ==
    [][\A r \in Reqs :
        (Completes(r) /\ req'[r].wrote) =>
            Stored(store', req[r].session_id).history =
                req[r].chat_history
                \o <<[role |-> "user", content |-> req[r].user_message_content],
                     [role |-> "assistant",
                      content |-> req'[r].response[1].response]>>]_vars

\* A second turn that ended in the tool's except handler and was saved.
C1_Witness ==
    \E r \in Reqs :
        /\ req[r].pc = "done" /\ req[r].wrote
        /\ req[r].branch = "tool_raised"
        /\ Len(Stored(store, req[r].session_id).history) = 4

\* ------------------------------------------------------------------ C3
\* C3: when a recognised tool raised, or the second LLM pass failed after
\* the tool ran, the turn returns and persists the info it loaded at its
\* start, returns no search results, and replies with the apology that names
\* the tool.
C3_ToolFailureRollsBack ==
    [][\A r \in Reqs :
        (Completes(r) /\ req[r].branch \in {"tool_raised", "llm2_failed"}) =>
            /\ req[r].function_name \in available_tools
            /\ req'[r].response[1].updated_info = req[r].current_info
            /\ req'[r].wrote =>
                 Stored(store', req[r].session_id).info = req[r].current_info
            /\ req[r].search_results_for_response = None
            /\ "search_results" \notin DOMAIN req'[r].response[1]
            /\ req'[r].response[1].response = ToolApology(req[r].function_name)]_vars

\* update_booking_parameters loaded, merged and wrote its info, the second
\* pass failed, and the turn's save put the absent info of a fresh session
\* back under the key.
C3_Witness ==
    \E r \in Reqs :
        /\ req[r].pc = "done" /\ req[r].wrote
        /\ req[r].branch = "llm2_failed"
        /\ req[r].function_name = "update_booking_parameters"
        /\ ~req[r].tool_store_failed
        /\ Stored(store, req[r].session_id).info = None
        /\ req[r].response[1].response = ToolApology("update_booking_parameters")

\* ------------------------------------------------------------------ C4
\* The step in which request r's first LLM call fails.
FirstFails(r) == req[r].pc = "llm1" /\ req'[r].branch = "llm1_failed"

\* C4: a failed first LLM call (it raised, or gave no candidates or no
\* parts) runs no tool and goes on to the save; the turn replies with the
\* generic apology, returns the info it loaded, and what it saves is that
\* info and the loaded history followed by the user's message and the
\* apology.
C4_FirstPassFailure ==
    [][\A r \in Reqs :
        /\ FirstFails(r) =>
             /\ req'[r].pc = "save"
             /\ req'[r].function_name = ""
             /\ UNCHANGED <<store, ttl, users, bookings>>
        /\ (Completes(r) /\ req[r].branch = "llm1_failed") =>
             /\ req'[r].response[1].response = CONNECT_REPLY
             /\ req'[r].response[1].updated_info = req[r].current_info
             /\ req'[r].wrote =>
                  Stored(store', req[r].session_id) =
                      [info |-> req[r].current_info,
                       history |-> req[r].chat_history
                           \o <<Message("user", req[r].user_message_content),
                                Message("assistant", CONNECT_REPLY)>>]]_vars

\* A second turn whose first LLM call failed and whose record was saved.
C4_Witness ==
    \E r \in Reqs :
        /\ req[r].pc = "done" /\ req[r].wrote
        /\ req[r].branch = "llm1_failed"
        /\ req[r].response[1].response = CONNECT_REPLY
        /\ LET history == Stored(store, req[r].session_id).history
           IN /\ Len(history) = 4
              /\ history[3] = Message("user", req[r].user_message_content)
              /\ history[4] = Message("assistant", CONNECT_REPLY)

\* ------------------------------------------------------------------ C5
Apologies ==
    {DEFAULT_REPLY, CONFUSED_REPLY, CONNECT_REPLY}
    \cup {ToolApology(f) : f \in available_tools}

\* C5: when the session store failed on the get or on the set of
\* update_booking_parameters inside a turn (whose own load had succeeded),
\* the turn returns and persists the info it had before the tool call and
\* its reply is an apology.
C5_FailureIsolation ==
    [][\A r \in Reqs :
        (/\ Completes(r)
         /\ req[r].function_name = "update_booking_parameters"
         /\ req[r].tool_store_failed /\ ~req[r].load_failed) =>
            /\ req'[r].response[1].updated_info = req[r].current_info
            /\ req'[r].wrote =>
                 Stored(store', req[r].session_id).info = req[r].current_info
            /\ req'[r].response[1].response \in Apologies]_vars

\* ------------------------------------------------------------------ C6
\* C6: after a turn in which check_availability returned a payload, the
\* destination and the guests the turn loaded are still in the record the
\* turn persists.
C6_AvailabilityKeepsFields ==
    [][\A r \in Reqs :
        (/\ Completes(r) /\ req'[r].wrote
         /\ req[r].function_name = "check_availability"
         /\ req[r].branch = "tool_returned"
         /\ req[r].current_info # None) =>
            \A f \in {"destination", "guests"} :
                req[r].current_info[1][f] # None =>
                    /\ Stored(store', req[r].session_id).info # None
                    /\ Stored(store', req[r].session_id).info[1][f]
                           = req[r].current_info[1][f]]_vars

\* ------------------------------------------------------------------ C7
\* C7: whatever a step writes under a session's key, the history stored
\* there afterwards extends the history stored there before, also in a turn
\* during which the store failed on a load or on a save.
C7_HistoryAppendOnly ==
    [][\A s \in Sessions :
        (store[Key(s)] # None /\ store'[Key(s)] # None) =>
            IsPrefix(Stored(store, s).history, Stored(store', s).history)]_vars

\* ------------------------------------------------------------------ C2
\* The last value a call of the sequence supplied for field f, or the value
\* the record held before the first call.
LastSupplied(f) ==
    LET supplying == {i \in DOMAIN calls.supplied : f \in DOMAIN calls.supplied[i]}
        last == CHOOSE i \in supplying : \A j \in supplying : j <= i
    IN IF supplying # {} THEN Some(calls.supplied[last][f])
       ELSE IF calls.initial = None THEN None
       ELSE calls.initial[1][f]

\* C2: once a call of update_booking_parameters has returned, against a
\* session store that answers, every field of the stored info holds the last
\* value the calls so far supplied for it, or its initial value when none
\* did; what the call returns is that info.
C2_MergeKeepsLastNonNull ==
    \A r \in DOMAIN clients :
        (req[r].pc = "llm2" /\ calls.supplied # <<>>) =>
            /\ Stored(store, clients[r]).info # None
            /\ \A f \in InfoFields :
                 Stored(store, clients[r]).info[1][f] = LastSupplied(f)
            /\ req[r].updated_info_for_response = Stored(store, clients[r]).info

\* Over a record with destination Rome and four guests, a first call gave
\* the destination Paris and a second one the guests alone.
C2_Witness ==
    \E r \in DOMAIN clients :
        /\ req[r].pc = "llm2"
        /\ calls.initial # None
        /\ Len(calls.supplied) = 2
        /\ DOMAIN calls.supplied[1] = {"destination"}
        /\ calls.supplied[1].destination = "Paris"
        /\ DOMAIN calls.supplied[2] = {"guests"}
        /\ Stored(store, clients[r]).info =
               Some([destination |-> Some("Paris"), check_in |-> None,
                     check_out |-> None, guests |-> Some(2)])

\* ------------------------------------------------------------------ C8
\* C8: a save that writes, the turn's or the tool's, leaves under the key
\* exactly the record of the request that made it, built from what that
\* request loaded, whatever another request on the session stored in
\* between.
C8_LastWriteWins ==
    [][\A r \in Reqs :
        /\ (Completes(r) /\ req'[r].wrote) =>
             Stored(store', req[r].session_id) =
                 [info |-> req[r].updated_info_for_response,
                  history |-> req[r].chat_history
                      \o <<Message("user", req[r].user_message_content),
                           Message("assistant", req[r].ai_natural_response)>>]
        /\ (req[r].pc = "update_save" /\ req'[r].pc = "llm2" /\ store' # store) =>
             Stored(store', req[r].session_id) =
                 [info |-> Some(req[r].tool.updated_info_model),
                  history |-> req[r].tool.history]]_vars

\* Two requests on one session have both saved; one of them ran
\* update_booking_parameters, which stored its info; the record holds the
\* two entries of the other request alone and no info.
C8_Witness ==
    \E r1, r2 \in Reqs :
        /\ r1 # r2 /\ clients[r1] = clients[r2]
        /\ req[r1].pc = "done" /\ req[r1].wrote
        /\ req[r2].pc = "done" /\ req[r2].wrote
        /\ req[r1].function_name = "update_booking_parameters"
        /\ req[r1].branch = "tool_returned" /\ ~req[r1].tool_store_failed
        /\ req[r1].response[1].updated_info # None
        /\ Stored(store, clients[r1]) =
               [info |-> None,
                history |-> <<Message("user", req[r2].user_message_content),
                              Message("assistant", req[r2].response[1].response)>>]

\* ------------------------------------------------------------------ C9
\* C9: a step of a request made for one session leaves the record and the
\* expiry of every other session as they were, and what its loads read (the
\* turn's and the tool's, whatever session id the model put in the
\* arguments) is the record of its own session or, on a store error, the
\* default.
C9_SessionIsolation ==
    [][\A r \in DOMAIN clients :
        req'[r] # req[r] =>
            /\ \A k \in Keys \ {Key(clients[r])} :
                 store'[k] = store[k] /\ ttl'[k] = ttl[k]
            /\ (req[r].pc = "load" /\ req'[r].pc = "llm1") =>
                 \E loaded \in {DefaultState, Stored(store, clients[r])} :
                     /\ req'[r].current_info = loaded.info
                     /\ req'[r].chat_history = loaded.history
            /\ (req[r].pc = "update_load" /\ req'[r].pc = "update_save") =>
                 \E loaded \in {DefaultState, Stored(store, clients[r])} :
                     req'[r].tool =
                         [updated_info_model |->
                              UpdateMerge(loaded.info, req[r].params),
                          history |-> loaded.history]]_vars

\* Two requests on two sessions have interleaved and saved: one ran
\* update_booking_parameters and its session holds the info, the other's
\* session holds its own two entries and no info.
C9_Witness ==
    \E r1, r2 \in Reqs :
        /\ clients[r1] # clients[r2]
        /\ req[r1].pc = "done" /\ req[r1].wrote
        /\ req[r2].pc = "done" /\ req[r2].wrote
        /\ req[r1].function_name = "update_booking_parameters"
        /\ req[r1].branch = "tool_returned"
        /\ Stored(store, clients[r1]).info # None
        /\ Stored(store, clients[r1]).info = req[r1].response[1].updated_info
        /\ Stored(store, clients[r2]) =
               [info |-> None,
                history |-> <<Message("user", req[r2].user_message_content),
                              Message("assistant", req[r2].response[1].response)>>]

\* ----------------------------------------------------------------- C10
\* The bytes a get that answers finds under the key of session_id.
Found(session_id) == RedisGet(Key(session_id), FALSE).bytes

\* C10: the load of a turn always returns to chat_endpoint, which goes on to
\* the first LLM call; when the session id is empty, the key is missing,
\* the store errors or the stored value does not decode, it returns no info
\* and an empty history, as for a fresh session.
C10_LoadNeverRaises ==
    [][\A r \in Reqs :
        (req[r].pc = "load" /\ req'[r].pc # "load") =>
            /\ req'[r].pc = "llm1"
            /\ (\/ req[r].session_id = ""
                \/ req'[r].load_failed
                \/ Found(req[r].session_id) = None
                \/ LoadBody(Found(req[r].session_id)).raised) =>
                 /\ req'[r].current_info = None
                 /\ req'[r].chat_history = <<>>
                 /\ req'[r].updated_info_for_response = None]_vars

\* The store answered with a value that does not decode, and the turn is at
\* its first LLM call with the default record.
C10_Witness ==
    \E r \in Reqs :
        /\ req[r].pc = "llm1" /\ ~req[r].load_failed
        /\ req[r].session_id # ""
        /\ Found(req[r].session_id) # None
        /\ LoadBody(Found(req[r].session_id)).raised
        /\ req[r].current_info = None /\ req[r].chat_history = <<>>

\* ----------------------------------------------------------------- C11
\* C11: a save never raises into chat_endpoint.  The step of the final save
\* always ends the turn with the reply and the info in the response; when
\* the store's write failed, the record and the expiry of every key are as
\* they were.  The same holds for the save inside update_booking_parameters:
\* the tool returns and the second pass is awaited.
C11_SaveFailureSwallowed ==
    [][\A r \in Reqs :
        /\ (req[r].pc = "save" /\ req'[r] # req[r]) =>
             /\ req'[r].pc = "done"
             /\ req'[r].response =
                    Some([response |-> req[r].ai_natural_response,
                          updated_info |-> req[r].updated_info_for_response])
             /\ ~req'[r].wrote => (store' = store /\ ttl' = ttl)
        /\ (/\ req[r].pc = "update_save" /\ req'[r] # req[r]
            /\ ~req[r].tool_store_failed /\ req'[r].tool_store_failed) =>
             /\ req'[r].pc = "llm2"
             /\ store' = store /\ ttl' = ttl]_vars

\* The save of a second turn failed: the turn has returned its reply and the
\* record of the first turn is still under the key.
C11_Witness ==
    \E r \in Reqs :
        /\ req[r].pc = "done" /\ ~req[r].wrote
        /\ req[r].user_message_content = "second message"
        /\ req[r].response # None
        /\ store[Key(req[r].session_id)] # None
        /\ Stored(store, req[r].session_id).history =
               <<Message("user", "first message"),
                 Message("assistant", "Here is what I found.")>>

\* ----------------------------------------------------------------- C12
\* C12: every save that writes leaves the key with the full
\* STATE_EXPIRY_SECONDS to live, whatever it had left; a record that is
\* under a key has time left; a record goes away only in a step of the
\* clock, never in a step of a request; and a load that finds no record
\* returns the default.
C12_ExpiryRenewedOnSave ==
    [][/\ \A r \in Reqs :
            /\ (Completes(r) /\ req'[r].wrote) =>
                 ttl'[Key(req[r].session_id)] = STATE_EXPIRY_SECONDS
            /\ (/\ req[r].pc = "update_save" /\ req'[r] # req[r]
                /\ (store' # store \/ ttl' # ttl)) =>
                 ttl'[Key(req[r].session_id)] = STATE_EXPIRY_SECONDS
            /\ (/\ req[r].pc = "load" /\ req'[r].pc = "llm1"
                /\ store[Key(req[r].session_id)] = None) =>
                 /\ req'[r].current_info = None
                 /\ req'[r].chat_history = <<>>
       /\ \A k \in Keys :
            /\ store'[k] # None => (ttl'[k] > 0 /\ ttl'[k] <= STATE_EXPIRY_SECONDS)
            /\ (store[k] # None /\ store'[k] = None) =>
                 /\ req' = req
                 /\ \E d \in Elapses : ttl[k] <= d
                 /\ ttl'[k] = 0]_vars

\* A turn saved its record, STATE_EXPIRY_SECONDS went by without a save,
\* and the record is gone.
C12_Witness ==
    \E r \in Reqs :
        /\ req[r].pc = "done" /\ req[r].wrote
        /\ store[Key(req[r].session_id)] = None
        /\ ttl[Key(req[r].session_id)] = 0

\* ----------------------------------------------------------------- C13
\* C13: of two calls of get_or_create_user in sequence with the same valid
\* email, the users collection answering and holding no such user before,
\* the first returns status created, the second status found with the same
\* user_id, and one row holds that email.
C13_UserLookupIdempotent ==
    (/\ Len(calls.supplied) >= 2
     /\ calls.supplied[1].args.email = calls.supplied[2].args.email
     /\ EmailValid(calls.supplied[1].args.email)
     /\ calls.supplied[1].dbfail = 0 /\ calls.supplied[2].dbfail = 0) =>
        /\ calls.supplied[1].payload.status = Some("created")
        /\ calls.supplied[2].payload.status = Some("found")
        /\ calls.supplied[1].payload.user_id # None
        /\ calls.supplied[2].payload.user_id = calls.supplied[1].payload.user_id
        /\ Cardinality({u \in users : u.email = calls.supplied[1].args.email}) = 1

\* ----------------------------------------------------------------- C14
\* C14: a turn in which get_or_create_user found or created a user leaves,
\* when its final save writes, a stored record that holds that user's id.
C14_UserIdPersisted ==
    [][\A r \in Reqs :
        (Completes(r) /\ req'[r].wrote /\ req[r].resolved_user_id # None) =>
            LET doc == store'[Key(req[r].session_id)][1].doc.v
            IN /\ "user_id" \in DOMAIN doc
               /\ doc["user_id"].t # "null"]_vars

\* ----------------------------------------------------------------- C15
\* The listing a direct call of check_availability names, and whether the
\* call carries two calendar dates in order.
ListingNamed(c) == SelectSeq(Listings, LAMBDA l : l.title = c.args.name)

DatesInOrder(c) ==
    /\ "check_in" \in DOMAIN c.args /\ "check_out" \in DOMAIN c.args
    /\ IsDate(c.args.check_in) /\ IsDate(c.args.check_out)
    /\ DayOf[c.args.check_in] < DayOf[c.args.check_out]

\* C15: check_availability for an existing listing with a price and no
\* bookings, with two dates in order and the relational store answering,
\* returns is_available true and total_price = nights * price_per_night,
\* and the session's stored info then carries selected_listing_id,
\* selected_listing_title and total_price.
C15_AvailablePricedAndSelected ==
    \A i \in DOMAIN calls.supplied, r \in DOMAIN clients :
        LET c == calls.supplied[i] IN
        (/\ c.name = "check_availability" /\ c.dbfail = 0
         /\ ListingNamed(c) # <<>>
         /\ ListingNamed(c)[1].price_per_night # None
         /\ DatesInOrder(c)
         /\ \A b \in bookings : b.listing_id # ListingNamed(c)[1].id) =>
            /\ c.out = "return"
            /\ c.payload.is_available = Some(TRUE)
            /\ c.payload.total_price =
                   Some((DayOf[c.args.check_out] - DayOf[c.args.check_in])
                        * ListingNamed(c)[1].price_per_night[1])
            /\ Stored(store, clients[r]).info # None
            /\ {"selected_listing_id", "selected_listing_title", "total_price"}
                   \subseteq DOMAIN Stored(store, clients[r]).info[1]

\* ----------------------------------------------------------------- C16
\* C16: once create_booking has returned success for a listing and a range,
\* every later check_availability for that listing with two dates in order
\* whose range overlaps the booked one (the identical range and partial
\* overlaps included) returns is_available false with at least one
\* conflicting booking, the relational store answering.
C16_BookedRangeUnavailable ==
    \A i \in DOMAIN calls.supplied :
        LET c == calls.supplied[i] IN
        (/\ c.name = "check_availability" /\ c.dbfail = 0
         /\ ListingNamed(c) # <<>>
         /\ DatesInOrder(c)
         /\ \E b \in bookings :
               /\ b.id \in calls.booked
               /\ b.listing_id = ListingNamed(c)[1].id
               /\ DayOf[b.check_in] < DayOf[c.args.check_out]
               /\ DayOf[b.check_out] > DayOf[c.args.check_in]) =>
            /\ c.out = "return"
            /\ c.payload.is_available = Some(FALSE)
            /\ c.payload.conflicting_bookings_found[1] >= 1

\* ----------------------------------------------------------------- C17
\* A direct call of check_availability that lacks a date, carries a string
\* that is no calendar date, or has check_in on or after check_out.
BadDates(c) == c.name = "check_availability" /\ ~DatesInOrder(c)

\* The step in which a call of check_availability goes back to its caller.
AvailabilityAnswered ==
    /\ calls'.supplied # calls.supplied
    /\ calls'.supplied[1].name = "check_availability"

DateErrors ==
    {Some("Listing not found."),
     Some("Missing check-in or check-out date for availability check."),
     Some("Invalid date format provided. Please use YYYY-MM-DD."),
     Some("Check-out date must be after check-in date.")}

\* What the call gave is an error payload built before the bookings query:
\* none of the query's result fields, none of its error.
ErrorBeforeQuery(c) ==
    /\ c.out = "return"
    /\ "error" \in DOMAIN c.payload
    /\ c.payload.error \in DateErrors
    /\ "is_available" \notin DOMAIN c.payload

BookingAnswered ==
    /\ calls'.supplied # calls.supplied
    /\ calls'.supplied[1].name = "create_booking"

\* The rows the overlap query of a call with these arguments returns.
Conflicts(args, bookings_rows) ==
    {b \in bookings_rows :
        /\ b.listing_id = args.listing_id
        /\ DayOf[b.check_out] >= DayOf[args.check_in]
        /\ DayOf[b.check_in] <= DayOf[args.check_out]}

\* C18: a row is inserted only by a call of create_booking whose overlap
\* query was answered with no rows, and it is that call's one row; a call
\* whose query returns a row gives status unavailable and inserts nothing.
C18_InsertOnlyAfterEmptyQuery ==
    [][LET c == calls'.supplied[1] IN
       /\ bookings' # bookings =>
            /\ BookingAnswered
            /\ c.dbfail # 1
            /\ Conflicts(c.args, bookings) = {}
            /\ \E b \in bookings' \ bookings :
                  /\ bookings' = bookings \cup {b}
                  /\ b.listing_id = c.args.listing_id
                  /\ b.check_in = c.args.check_in
                  /\ b.check_out = c.args.check_out
       /\ (BookingAnswered /\ c.payload.status = Some("unavailable")) =>
            /\ bookings' = bookings
            /\ Conflicts(c.args, bookings) # {}
       /\ (/\ BookingAnswered /\ c.dbfail # 1
           /\ c.args.user_id # "" /\ c.args.listing_id # ""
           /\ IsDate(c.args.check_in) /\ IsDate(c.args.check_out)
           /\ DayOf[c.args.check_in] < DayOf[c.args.check_out]
           /\ Conflicts(c.args, bookings) # {}) =>
            /\ c.payload.status = Some("unavailable")
            /\ bookings' = bookings]_vars

C18_Witness ==
    /\ calls.supplied # <<>>
    /\ calls.supplied[1].name = "create_booking"
    /\ calls.supplied[1].payload.status = Some("unavailable")
    /\ calls.supplied[1].args.check_in = "2025-07-12"
    /\ \E b \in bookings : b.check_out = "2025-07-12" /\ b.id \in calls.booked

\* ----------------------------------------------------------------- C20
\* C20: create_booking never raises. Without a user_id or listing_id, with a
\* malformed date or with check_in >= check_out it returns status error; with
\* a conflicting booking, unavailable; when a relational-store call raises,
\* error; and in none of these cases is a row inserted.
C20_BookingFailuresInsertNothing ==
    [][BookingAnswered =>
        LET c == calls'.supplied[1]
            valid == /\ c.args.user_id # "" /\ c.args.listing_id # ""
                     /\ IsDate(c.args.check_in) /\ IsDate(c.args.check_out)
                     /\ DayOf[c.args.check_in] < DayOf[c.args.check_out]
        IN /\ c.out = "return"
           /\ ~valid => c.payload.status = Some("error")
           /\ (valid /\ c.dbfail # 1 /\ Conflicts(c.args, bookings) # {}) =>
                  c.payload.status = Some("unavailable")
           /\ (valid /\ c.dbfail # 0 /\ Conflicts(c.args, bookings) = {}) =>
                  c.payload.status = Some("error")
           /\ c.payload.status \in {Some("error"), Some("unavailable")} =>
                  bookings' = bookings]_vars

\* ----------------------------------------------------------------- C19
\* C19: a call of create_booking whose overlap query was answered with no
\* rows inserts its row and returns success whatever the bookings hold by
\* the time of the insert, the relational store answering; so two calls for
\* the same listing and overlapping dates whose queries both ran before
\* either insert both return success and leave two overlapping bookings.
C19_StaleCheckInserts ==
    [][\A r \in Reqs :
        (req[r].pc = "booking_insert" /\ req'[r].pc = "returned"
            /\ req[r].tool.dbfail = 0) =>
              /\ calls'.supplied[1].payload.status = Some("success")
              /\ calls'.supplied[1].payload.booking_id = Some(req[r].tool.booking_id)
              /\ \E b \in bookings' \ bookings :
                    /\ bookings' = bookings \cup {b}
                    /\ b.id = req[r].tool.booking_id
                    /\ b.listing_id = req[r].tool.args.listing_id
                    /\ b.check_in = req[r].tool.args.check_in
                    /\ b.check_out = req[r].tool.args.check_out]_vars

C19_Witness ==
    \E b1, b2 \in bookings :
        /\ b1.id # b2.id
        /\ {b1.id, b2.id} \subseteq calls.booked
        /\ b1.listing_id = b2.listing_id
        /\ DayOf[b1.check_in] < DayOf[b2.check_out]
        /\ DayOf[b2.check_in] < DayOf[b1.check_out]
        /\ \A r \in Reqs : req[r].pc = "returned"

\* ----------------------------------------------------------------- C21
\* C21: a call of search_listings executes the primary query, then the
\* fallback query exactly when the primary query was answered with no rows,
\* and no further query; it returns as many items as its last query gave
\* rows, so an empty fallback gives an empty list, and it does not raise.
C21_OneFallbackOnEmptyPrimary ==
    \A i \in DOMAIN calls.supplied :
        LET c == calls.supplied[i]
            q == c.payload.queries
        IN c.name = "search_listings" =>
            /\ c.out = "return"
            /\ Len(q) \in {1, 2}
            /\ q[1].query = "primary"
            /\ Len(q) = 2 <=> (~q[1].raised /\ q[1].rows = <<>>)
            /\ Len(q) = 2 => q[2].query = "fallback"
            /\ Len(c.payload.results) = Len(q[Len(q)].rows)
            /\ \A k \in DOMAIN c.payload.results :
                  c.payload.results[k].id = q[Len(q)].rows[k].id

C21_Witness ==
    /\ calls.supplied # <<>>
    /\ calls.supplied[1].name = "search_listings"
    /\ calls.supplied[1].args = [destination |-> "Nowhereville"]
    /\ calls.supplied[1].dbfail = 0
    /\ Len(calls.supplied[1].payload.queries) = 2
    /\ calls.supplied[1].payload.queries[2].rows = <<>>
    /\ calls.supplied[1].payload.results = <<>>

\* ----------------------------------------------------------------- C22
\* C22: the response of a turn in which create_booking returned status
\* success and the second LLM pass gave its text carries a booking
\* confirmation block with that booking's id, listing title, dates and
\* total price; the response of any other turn carries none.
C22_BookingBlockReturned ==
    [][\A r \in Reqs :
        Completes(r) =>
            LET q == req[r]
                resp == req'[r].response[1]
                booked == /\ q.function_name = "create_booking"
                          /\ q.branch = "tool_returned"
                          /\ "booking_info" \in DOMAIN q.final_response
            IN /\ booked =>
                    /\ "booking_info" \in DOMAIN resp
                    /\ resp["booking_info"] = q.final_response["booking_info"]
               /\ ~booked => "booking_info" \notin DOMAIN resp]_vars

\* ----------------------------------------------------------------- C23
\* C23: when the first LLM response asks for a function that is not in the
\* registry, the turn goes straight to its save: no tool runs, the LLM is
\* not called again, the reply is the "confused" text, no search results
\* are returned, and the info returned and persisted is the info the turn
\* loaded.
C23_UnknownToolConfused ==
    [][\A r \in Reqs :
        /\ (/\ req[r].pc = "llm1" /\ req'[r].pc # "llm1"
            /\ req'[r].function_name # ""
            /\ req'[r].function_name \notin available_tools) =>
              /\ req'[r].pc = "save"
              /\ req'[r].ai_natural_response = CONFUSED_REPLY
              /\ req'[r].search_results_for_response = None
              /\ req'[r].updated_info_for_response = req[r].current_info
              /\ req'[r].current_info = req[r].current_info
              /\ UNCHANGED <<store, ttl, users, bookings>>
        /\ (/\ Completes(r)
            /\ req[r].function_name # ""
            /\ req[r].function_name \notin available_tools) =>
              /\ req'[r].response =
                     Some([response |-> CONFUSED_REPLY,
                           updated_info |-> req[r].current_info])
              /\ UNCHANGED <<users, bookings>>
              /\ req'[r].wrote =>
                     Stored(store', req[r].session_id).info = req[r].current_info]_vars

C23_Witness ==
    \E r \in Reqs :
        /\ req[r].pc = "done" /\ req[r].wrote
        /\ req[r].function_name = "cancel_booking"
        /\ req[r].response[1].response = CONFUSED_REPLY
        /\ req[r].response[1].updated_info # None
        /\ Stored(store, req[r].session_id).info = req[r].response[1].updated_info

\* ----------------------------------------------------------------- C24
\* C24: when the first LLM response asks for no function, the turn goes
\* straight to its save with that response's text as reply: no tool runs,
\* the LLM is not called again, and a save that writes stores the loaded
\* info and the loaded history followed by the user message and the reply.
C24_DirectReplyKeepsRecord ==
    [][\A r \in Reqs :
        /\ (req[r].pc = "llm1" /\ req'[r].branch = "no_tool") =>
              /\ req'[r].pc = "save"
              /\ req'[r].function_name = ""
              /\ req'[r].ai_natural_response \in LLMTexts
              /\ req'[r].updated_info_for_response = req[r].current_info
              /\ req'[r].current_info = req[r].current_info
              /\ req'[r].chat_history = req[r].chat_history
              /\ UNCHANGED <<store, ttl, users, bookings>>
        /\ (Completes(r) /\ req[r].branch = "no_tool") =>
              /\ req'[r].response =
                     Some([response |-> req[r].ai_natural_response,
                           updated_info |-> req[r].current_info])
              /\ req[r].ai_natural_response \in LLMTexts
              /\ UNCHANGED <<users, bookings>>
              /\ req'[r].wrote =>
                   /\ Stored(store', req[r].session_id).info = req[r].current_info
                   /\ Stored(store', req[r].session_id).history =
                          req[r].chat_history
                          \o <<Message("user", req[r].user_message_content),
                               Message("assistant", req[r].ai_natural_response)>>]_vars

C24_Witness ==
    \E r \in Reqs :
        /\ req[r].pc = "done" /\ req[r].wrote /\ req[r].branch = "no_tool"
        /\ req[r].response[1].response = "Here is what I found."
        /\ req[r].response[1].updated_info # None
        /\ Stored(store, req[r].session_id).info = req[r].response[1].updated_info
        /\ Len(Stored(store, req[r].session_id).history) = 2

\* ----------------------------------------------------------------- C25
\* C25: every chat request ends by returning a non-empty text to its
\* caller after one save of the turn, whichever stage fails: a request
\* leaves the endpoint only from the save, with a response that holds a
\* text, and never through an error raised to the caller.
C25_EveryRequestAnswered ==
    [][\A r \in Reqs :
        (req'[r].pc # req[r].pc /\ req'[r].pc \notin InFlight) =>
            /\ req[r].pc = "save"
            /\ req'[r].pc = "done"
            /\ req'[r].response # None
            /\ req'[r].response[1].response # ""]_vars

\* ----------------------------------------------------------------- C26
\* The place of a position in the order of a turn.
Rank(pc) ==
    CASE pc = "idle" -> 0
      [] pc = "load" -> 1
      [] pc = "llm1" -> 2
      [] pc \in {"update_load", "search_load", "availability_load", "user_load"} -> 3
      [] pc = "update_save" -> 4
      [] pc = "llm2" -> 5
      [] pc = "save" -> 6
      [] OTHER -> 7

InTool == {"update_load", "update_save", "search_load", "availability_load",
           "user_load"}

\* C26: a turn only moves forward through load, first LLM call, tool,
\* second LLM call, save: no step is taken twice, a tool runs only for a
\* registered name asked by the first response and stays the only one, the
\* second LLM call is entered only when that tool has returned, and what
\* the second call gives runs no tool and leads to the save.
C26_TurnOrder ==
    [][\A r \in Reqs :
        LET a == req[r].pc
            b == req'[r].pc
        IN (req'[r] # req[r]) =>
            /\ Rank(b) > Rank(a)
            /\ b = "llm1" => a = "load"
            /\ b \in InTool =>
                 /\ a \in InTool \cup {"llm1"}
                 /\ req'[r].function_name \in available_tools
                 /\ a \in InTool => req'[r].function_name = req[r].function_name
            /\ b = "llm2" =>
                 /\ a \in InTool \cup {"llm1"}
                 /\ req'[r].function_name \in available_tools
                 /\ req'[r].branch = "tool_returned"
                 /\ a \in InTool => req'[r].function_name = req[r].function_name
            /\ a = "llm2" =>
                 /\ b = "save"
                 /\ req'[r].function_name = req[r].function_name
                 /\ UNCHANGED <<store, ttl, users, bookings>>
            /\ b = "done" => a = "save"
            /\ (a = "llm1" /\ req'[r].function_name \notin available_tools) =>
                 /\ b = "save"
                 /\ UNCHANGED <<store, ttl, users, bookings>>]_vars

C26_Witness ==
    \E r \in Reqs :
        /\ req[r].pc = "done"
        /\ req[r].function_name = "update_booking_parameters"
        /\ req[r].branch = "llm2_failed"
        /\ req[r].response[1].response = ToolApology("update_booking_parameters")

\* ----------------------------------------------------------------- C27
\* C27: a turn in which search_listings returned at least one listing
\* leaves, when its final save writes, a stored record with a field beside
\* info and history that holds a listing of that search.
C27_LastListingPersisted ==
    [][\A r \in Reqs :
        (/\ Completes(r) /\ req'[r].wrote
         /\ req[r].function_name = "search_listings"
         /\ req[r].search_results_for_response # None
         /\ req[r].search_results_for_response[1] # <<>>) =>
            LET doc == store'[Key(req[r].session_id)][1].doc.v
            IN \E k \in DOMAIN doc \ {"info", "history"} : doc[k].t # "null"]_vars

\* ----------------------------------------------------------------- C28
\* C28: on every collection of bookings, for every listing found and every
\* two dates in order, the overlap query of check_availability sets
\* is_available true exactly when the overlap query of create_booking for
\* the same listing and dates returns no row, the relational store answering.
C28_SameOverlapTest ==
    \A args \in DirectAvailabilityCalls :
        LET c == [name |-> "check_availability", args |-> args] IN
        (ListingNamed(c) # <<>> /\ DatesInOrder(c)) =>
            LET ran == check_availability(
                           BindParams("check_availability", InjectSession(args, "a")),
                           bookings, 0)
                asked == [listing_id |-> ListingNamed(c)[1].id,
                          check_in |-> args.check_in, check_out |-> args.check_out]
            IN (ran.payload.is_available = Some(TRUE))
                   <=> (Conflicts(asked, bookings) = {})

\* ----------------------------------------------------------------- C29
\* The reply of a turn that ended in a handler of chat_endpoint.
FailureReply(q) ==
    CASE q.branch = "llm1_failed" -> CONNECT_REPLY
      [] q.branch = "unknown_tool" -> CONFUSED_REPLY
      [] OTHER -> ToolApology(q.function_name)

\* C29: a turn that ends in a failure branch (an LLM pass failing, a tool
\* raising, an unknown tool) answers with the fixed text of that branch,
\* parameterised by the tool's name alone, and with the loaded info; the
\* text of the exception is in neither, so turns that differ only in that
\* text get the same response.
C29_FailureReplyFixed ==
    [][\A r \in Reqs :
        (Completes(r)
         /\ req[r].branch \in {"llm1_failed", "llm2_failed", "tool_raised",
                               "unknown_tool"}) =>
            /\ req'[r].response =
                   Some([response |-> FailureReply(req[r]),
                         updated_info |-> req[r].current_info])
            /\ req'[r].wrote =>
                   Stored(store', req[r].session_id) =
                       [info |-> req[r].current_info,
                        history |-> req[r].chat_history
                            \o <<Message("user", req[r].user_message_content),
                                 Message("assistant", FailureReply(req[r]))>>]]_vars

C29_Witness ==
    \E r \in Reqs :
        /\ req[r].pc = "save"
        /\ req[r].error = "connection reset by peer"
        /\ req[r].function_name = "search_listings"
        /\ req[r].branch = "llm2_failed"
        /\ req[r].ai_natural_response = ToolApology("search_listings")

\* ----------------------------------------------------------------- C30
\* The step in which search_listings returns n validated listings tells
\* the second pass the count n and the summaries of the first min(3, n).
ObservationCapped(r) ==
    (/\ req'[r].pc = "llm2" /\ req[r].pc # "llm2"
     /\ req'[r].function_name = "search_listings") =>
        LET results == req'[r].search_results_for_response[1]
            told == req'[r].tool_result_content_for_gemini
            n == Len(results)
        IN /\ told.listings_found_count = n
           /\ Len(told.listings_summary) = (IF n < 3 THEN n ELSE 3)
           /\ \A i \in DOMAIN told.listings_summary :
                 /\ told.listings_summary[i].title = results[i].title
                 /\ told.listings_summary[i].city = results[i].city

\* The response of a search turn whose second pass answered carries the n
\* validated listings.
ResultsReturned(r) ==
    (/\ Completes(r) /\ req[r].function_name = "search_listings"
     /\ req[r].search_results_for_response # None) =>
        /\ "search_results" \in DOMAIN req'[r].response[1]
        /\ req'[r].response[1]["search_results"] = req[r].search_results_for_response

\* C30: in a turn that runs search_listings the second pass is told the
\* count n of the validated listings and the summaries of the first
\* min(3, n) in result order, and the response to the caller carries all n.
C30_SummariesCappedResultsWhole ==
    [][\A r \in Reqs : ObservationCapped(r) /\ ResultsReturned(r)]_vars

\* ----------------------------------------------------------------- C31
\* The payloads by which check_availability, get_or_create_user and
\* create_booking report an error without raising.
ErrorPayload(name, payload) ==
    CASE name = "check_availability" -> "error" \in DOMAIN payload
      [] name = "get_or_create_user" -> payload.status = Some("error")
      [] name = "create_booking" ->
            payload.status \in {Some("error"), Some("unavailable")}
      [] OTHER -> FALSE

\* C31: when check_availability, get_or_create_user or create_booking
\* returns an error payload, the second pass is awaited with the tool's own
\* payload as what it is told, and when that pass answers with a text the
\* reply of the turn is that text.
C31_ErrorPayloadRelayed ==
    [][\A r \in Reqs :
        /\ (/\ req[r].pc # "llm2" /\ req'[r].pc = "llm2"
            /\ ErrorPayload(req'[r].function_name, req'[r].function_result_payload)) =>
               req'[r].tool_result_content_for_gemini = req'[r].function_result_payload
        /\ (/\ req[r].pc = "llm2" /\ req'[r].branch = "tool_returned"
            /\ ErrorPayload(req[r].function_name, req[r].function_result_payload)) =>
               /\ req'[r].pc = "save"
               /\ req'[r].ai_natural_response \in LLMTexts]_vars

\* ----------------------------------------------------------------- C32
\* C32: every listing a call of search_listings returns has an image_url
\* that is not empty and a description of at most 200 characters, and the
\* call returns at most limit listings (5 when no limit is given).
C32_EveryListingStamped ==
    \A i \in DOMAIN calls.supplied :
        LET c == calls.supplied[i] IN
        c.name = "search_listings" =>
            /\ Len(c.payload.results) <=
                   (IF "limit" \in DOMAIN c.args THEN c.args.limit ELSE 5)
            /\ \A k \in DOMAIN c.payload.results :
                  /\ c.payload.results[k].image_url \notin {None, Some("")}
                  /\ c.payload.results[k].description_len <= 200

\* ----------------------------------------------------------------- C33
\* C33: when update_booking_parameters returns and its save has written,
\* the stored info of the session is the mapping the tool returns and the
\* stored history is what it was before the tool's save.
C33_UpdatePersistsReturnedInfo ==
    [][\A r \in Reqs :
        (/\ req[r].pc = "update_save" /\ req'[r].pc = "llm2"
         /\ store' # store) =>
            /\ Stored(store', req[r].session_id).info =
                   Some(req'[r].function_result_payload)
            /\ Stored(store', req[r].session_id).history =
                   Stored(store, req[r].session_id).history]_vars

\* ----------------------------------------------------------------- C34
\* C34: the step that ends a turn with a final save that writes leaves as
\* the stored info of the session the updated_info of the turn's response,
\* whatever the tool of the turn stored before.
C34_StoredInfoIsReturnedInfo ==
    [][\A r \in Reqs :
        (Completes(r) /\ req'[r].wrote) =>
            Stored(store', req[r].session_id).info =
                req'[r].response[1].updated_info]_vars

\* update_booking_parameters stored its merge over a record with an info,
\* the second pass answered, and the turn's save stored the merged info it
\* returns.
C34_Witness ==
    \E r \in Reqs :
        /\ req[r].pc = "done" /\ req[r].wrote
        /\ req[r].function_name = "update_booking_parameters"
        /\ req[r].branch = "tool_returned"
        /\ req[r].tool_store_failed
        /\ calls.initial # None
        /\ req[r].response[1].updated_info # calls.initial
        /\ Stored(store, req[r].session_id).info = req[r].response[1].updated_info

\* ----------------------------------------------------------------- C35
\* C35: the session_id a tool is called with is the session id of the
\* request that dispatches it, whatever session_id the model put in the
\* arguments, and no step of the request changes the record or the expiry
\* of another session.
C35_ToolRunsOnOwnSession ==
    [][\A r \in Reqs :
        req'[r] # req[r] =>
            /\ req'[r].params # <<>> =>
                 req'[r].params.session_id = Some(req'[r].session_id)
            /\ \A k \in Keys \ {Key(req'[r].session_id)} :
                 store'[k] = store[k] /\ ttl'[k] = ttl[k]]_vars

\* update_booking_parameters, asked for with the destination Rome (with the
\* session id of session b in one of the model's calls), has loaded and is
\* about to save under the session of the request; session b has no record.
C35_Witness ==
    \E r \in Reqs :
        /\ req[r].pc = "update_save"
        /\ req[r].session_id = "a"
        /\ req[r].params.session_id = Some("a")
        /\ req[r].params.destination = Some("Rome")
        /\ store[Key("b")] = None

\* ----------------------------------------------------------------- C36
\* C36: with bookings inserted by calls of create_booking that run one
\* after the other, no two bookings of one listing share a day, the days
\* of check-in and check-out included.
C36_NoOverlappingBookings ==
    \A b1, b2 \in bookings :
        (b1 # b2 /\ b1.listing_id = b2.listing_id) =>
            \/ DayOf[b1.check_out] < DayOf[b2.check_in]
            \/ DayOf[b2.check_out] < DayOf[b1.check_in]

\* Listing L1 is booked twice, from the 10th to the 12th and from the 14th
\* to the 15th, and listing L2 over days that both of them meet.
C36_Witness ==
    \E b1, b2, b3 \in bookings :
        /\ b1.listing_id = "L1" /\ b2.listing_id = "L1" /\ b3.listing_id = "L2"
        /\ b1.check_in = "2025-07-10" /\ b1.check_out = "2025-07-12"
        /\ b2.check_in = "2025-07-14" /\ b2.check_out = "2025-07-15"
        /\ b3.check_in = "2025-07-10" /\ b3.check_out = "2025-07-15"
        /\ {b1.id, b2.id, b3.id} \subseteq calls.booked

\* ----------------------------------------------------------------- C37
\* C37: get_or_create_user adds a user row only when no row of the users
\* collection holds the email it was called with, so that calls made one
\* after the other leave at most one row per email; a call with an invalid
\* email (empty, or without '@' or '.') returns status error whatever the
\* database would have answered, in the calling step, and changes neither
\* the users collection nor the session store.
C37_InsertOnlyWhenAbsent ==
    [][/\ \A u \in users' \ users : \A w \in users : w.email # u.email
       /\ Cardinality(users' \ users) <= 1
       /\ users \subseteq users'
       /\ \A u1, u2 \in users' : u1.email = u2.email => u1 = u2
       /\ Len(calls'.supplied) > Len(calls.supplied) =>
            LET c == calls'.supplied[Len(calls'.supplied)]
            IN (c.name = "get_or_create_user" /\ ~EmailValid(c.args.email)) =>
                /\ c.payload = [status |-> Some("error"),
                                error_message |->
                                    Some("Invalid email address provided.")]
                /\ \A r \in Reqs : req[r].pc # "user_load"
                /\ users' = users
                /\ store' = store /\ ttl' = ttl]_vars

\* Two calls with one valid email have returned, the database answering both:
\* the first inserted the row, the second found it and inserted nothing.
C37_Witness ==
    /\ Len(calls.supplied) = 2
    /\ calls.supplied[1].args.email = "ann@x.io"
    /\ calls.supplied[2].args.email = "ann@x.io"
    /\ calls.supplied[1].dbfail = 0 /\ calls.supplied[2].dbfail = 0
    /\ Cardinality(users) = 1
    /\ \E u \in users : u.email = "ann@x.io"

\* ----------------------------------------------------------------- C38
\* The step in which the load that follows the save returns.
LoadsBack ==
    /\ Len(calls.supplied) = 1 /\ Len(calls'.supplied) = 2
    /\ calls'.supplied[2].name = "load_conversation_state"

\* What the load gave is what the save was given.
SameAsSaved ==
    /\ calls'.supplied[2].payload.info = calls.supplied[1].args.info
    /\ calls'.supplied[2].payload.history = calls.supplied[1].args.history

\* With an empty session id the save writes nothing and the load returns
\* the default record.
EmptyIdIsInert ==
    calls.supplied[1].args.session_id = "" =>
        /\ ~calls.supplied[1].payload.wrote
        /\ \A k \in Keys : store[k] = None
        /\ calls'.supplied[2].payload = DefaultState

\* C38: a load that follows a save which wrote, under a non-empty session
\* id, before the record expired and with the store answering the load's
\* get, returns the info the save was given (absent stays absent, every
\* field keeps its value) and the history it was given, in order; with an
\* empty session id the save writes nothing and the load returns the
\* default record.
C38_SaveLoadRoundTrip ==
    [][LoadsBack =>
        /\ (/\ calls.supplied[1].args.session_id # ""
            /\ calls.supplied[1].payload.wrote
            /\ ttl[Key(calls.supplied[1].args.session_id)] > 0
            /\ calls'.supplied[2].dbfail = 0) => SameAsSaved
        /\ EmptyIdIsInert]_vars

\* C38 as stated: the same of every load before expiry, whether or not the
\* store answers its get.
C38_AnyLoadRoundTrip ==
    [][LoadsBack =>
        /\ (/\ calls.supplied[1].args.session_id # ""
            /\ calls.supplied[1].payload.wrote
            /\ ttl[Key(calls.supplied[1].args.session_id)] > 0) => SameAsSaved
        /\ EmptyIdIsInert]_vars

\* A record with an empty destination, zero guests and two messages was
\* saved and, some of its time used up, loaded back.
C38_Witness ==
    /\ Len(calls.supplied) = 2
    /\ calls.supplied[1].payload.wrote
    /\ calls.supplied[1].args.info # None
    /\ calls.supplied[1].args.info[1].destination = Some("")
    /\ calls.supplied[1].args.info[1].guests = Some(0)
    /\ Len(calls.supplied[1].args.history) = 2
    /\ calls.supplied[2].dbfail = 0
    /\ calls.supplied[2].payload.info = calls.supplied[1].args.info
    /\ calls.supplied[2].payload.history = calls.supplied[1].args.history
    /\ ttl[Key(calls.supplied[1].args.session_id)] = 3600
====
